---- MODULE Spec2Model ----
(***************************************************************************)
(* Theme analyzer (src/mcp_servers/theme_analyzer_mcp.py): the per-document *)
(* pipeline analyze_themes = skip_metadata, extract_terms, frequency        *)
(* counting, extract_contexts, find_cooccurrences, generate_insights.       *)
(*                                                                         *)
(* A text is a sequence of characters; a character is a one-character      *)
(* string.  A term is a sequence of characters as well.  Python dicts and   *)
(* Counters keep insertion order, which most_common and the gap examples    *)
(* depend on, so a Counter is a sequence of <<key, count>> pairs in         *)
(* insertion order.  Positions are 1-based here (Python's pos is p - 1).    *)
(* An ASCII character is written as itself, any other character by its     *)
(* code point: "U+00E1" is a-acute, "U+010D" is c-caron.                    *)
(***************************************************************************)
EXTENDS Integers, Sequences, FiniteSets, TLC

VARIABLES
    pc,                 \* position of analyze_themes in its body
    raw,                \* the text read from the markdown file (line 53)
    content,            \* the text after skip_metadata (line 56)
    terms,              \* extract_terms(content) (line 64)
    term_frequencies,   \* Counter (line 59), filled by lines 67-68
    counted,            \* how many entries of terms the counting loop has consumed
    significant_terms,  \* line 71
    term_contexts,      \* defaultdict(list) (line 60), filled by lines 72-74
    cooccurrences,      \* defaultdict(Counter) (line 61), filled by find_cooccurrences
    ci,                 \* find_cooccurrences: index i of term1 in terms (line 261)
    positions,          \* find_cooccurrences: positions of term1 (line 262)
    cp,                 \* find_cooccurrences: index into positions (line 264)
    cj,                 \* find_cooccurrences: index of term2 in terms (line 269)
    insights,           \* result of generate_insights (line 80)
    markdown_file,      \* markdown_file.name of the document being analysed
    entry,              \* "single": one analysis; "direct": a client's calls of
                        \* analyze_themes; "batch": analyze_themes_batch
    input_dir,          \* whether the input directory of the batch exists
    md_files,           \* the files enumerated (line 141), or named by the calls
    bpc,                \* position of the caller of analyze_themes
    bi,                 \* how many entries of md_files have been dealt with
    returned,           \* what the calls of analyze_themes returned, in call order
    batch_processed,    \* the list processed of line 149
    batch_failed,       \* the list failed of line 150
    all_term_frequencies, \* Counter of line 153
    batch_result,       \* what analyze_themes_batch returned
    out_dir,            \* whether the output directory exists
    written,            \* the writes to the file system, in order
    now,                \* the wall clock
    scan_pos,           \* extract_contexts: pos, where the next search starts (line 239)
    scan_contexts,      \* extract_contexts: the list contexts (line 235)
    scan_matches        \* the positions at which extract_contexts found the term

\* the state of one analysis
analysis == <<pc, raw, content, terms, term_frequencies, counted, significant_terms,
              term_contexts, cooccurrences, ci, positions, cp, cj, insights>>

\* the state of the caller and of the file system
session == <<markdown_file, entry, input_dir, md_files, bpc, bi, returned,
             batch_processed, batch_failed, all_term_frequencies, batch_result, out_dir, written, now>>

\* the state of the loop of extract_contexts for the term it is called with
scan == <<scan_pos, scan_contexts, scan_matches>>

vars == <<analysis, session, scan>>

-----------------------------------------------------------------------------
(* Generic helpers on sequences and sets.                                   *)

Range(s) == {s[i] : i \in 1..Len(s)}

Min(a, b) == IF a <= b THEN a ELSE b

Max(a, b) == IF a >= b THEN a ELSE b

MaxOf(S) == CHOOSE x \in S : \A y \in S : y <= x

MinOf(S) == CHOOSE x \in S : \A y \in S : x <= y

\* text[from .. to) with Python's 0-based half-open slice bounds, to already
\* clipped to len(text) by the callers below; empty when from >= to.
Slice(text, from, to) == SubSeq(text, from + 1, to)

\* Python's `needle in hay` / hay.find(needle) >= 0 for strings.
Contains(hay, needle) ==
    \E k \in 1..(Len(hay) - Len(needle) + 1) :
        \A d \in 1..Len(needle) : hay[k + d - 1] = needle[d]

\* The function or sequence f itself, as an explicitly enumerated value: every
\* f[x] is computed once here instead of at each later application.
Stored(f) == f @@ <<>>

\* The elements of a finite set of integers in increasing order.
SortedSeq(S) ==
    LET rank == Stored([x \in S |-> Cardinality({y \in S : y < x})])
    IN  Stored([k \in 1..Cardinality(S) |-> CHOOSE x \in S : rank[x] = k - 1])

\* Python's stable sorted(seq, key=key, reverse=True), k[i] being the key of
\* seq[i]: descending by key, elements of equal key in their original order.
StableSortDesc(seq, k) ==
    LET n == Len(seq)
        rank == Stored([i \in 1..n |->
                    Cardinality({j \in 1..n : k[j] > k[i] \/ (k[j] = k[i] /\ j < i)})])
    IN  Stored([r \in 1..n |-> seq[CHOOSE i \in 1..n : rank[i] = r - 1]])

\* seq[:n]
Take(seq, n) == SubSeq(seq, 1, Min(n, Len(seq)))

\* All 1-based indices at which needle occurs in hay.
Occurrences(hay, needle) ==
    {k \in 1..(Len(hay) - Len(needle) + 1) :
        \A d \in 1..Len(needle) : hay[k + d - 1] = needle[d]}

-----------------------------------------------------------------------------
(* Characters: str.lower() and the classes the regular expressions use.     *)

\* The character class [a-z plus 16 accented letters] of line 226.
Alphabet == {
    "a", "b", "c", "d", "e", "f", "g", "h", "i", "j", "k", "l", "m", "n", "o", "p",
    "q", "r", "s", "t", "u", "v", "w", "x", "y", "z", "U+00E1", "U+00E4", "U+010D", "U+010F", "U+00E9", "U+00ED",
    "U+013E", "U+0148", "U+00F3", "U+00F4", "U+0155", "U+0161", "U+0165", "U+00FA", "U+00FD", "U+017E"
}

UpperLetters == <<
    "A", "B", "C", "D", "E", "F", "G", "H", "I", "J", "K", "L", "M", "N", "O", "P",
    "Q", "R", "S", "T", "U", "V", "W", "X", "Y", "Z", "U+00C1", "U+00C4", "U+010C", "U+010E", "U+00C9", "U+00CD",
    "U+013D", "U+0147", "U+00D3", "U+00D4", "U+0154", "U+0160", "U+0164", "U+00DA", "U+00DD", "U+017D"
>>

LowerLetters == <<
    "a", "b", "c", "d", "e", "f", "g", "h", "i", "j", "k", "l", "m", "n", "o", "p",
    "q", "r", "s", "t", "u", "v", "w", "x", "y", "z", "U+00E1", "U+00E4", "U+010D", "U+010F", "U+00E9", "U+00ED",
    "U+013E", "U+0148", "U+00F3", "U+00F4", "U+0155", "U+0161", "U+0165", "U+00FA", "U+00FD", "U+017E"
>>

\* str.lower() on the letters whose lowercase form is in Alphabet; every other
\* character of the texts used here is its own lowercase form.
LowerTable ==
    [c \in Range(UpperLetters) |->
        LowerLetters[CHOOSE i \in 1..Len(UpperLetters) : UpperLetters[i] = c]]

LowerChar(c) == IF c \in DOMAIN LowerTable THEN LowerTable[c] ELSE c

\* The capital I with a dot above, whose lowercase form is two characters long:
\* an i and the combining dot above.
DottedI == "U+0130"

CombiningDot == "U+0307"

\* text.lower() (lines 225, 236, 259).  The result is longer than the text by
\* the number of its dotted capital I.
Lower(text) ==
    LET wide == {i \in 1..Len(text) : text[i] = DottedI}
        at == Stored([i \in 1..Len(text) |-> i + Cardinality({w \in wide : w < i})])
    IN  IF wide = {} THEN Stored([i \in 1..Len(text) |-> LowerChar(text[i])])
        ELSE Stored([j \in 1..(Len(text) + Cardinality(wide)) |->
                 LET i == CHOOSE x \in 1..Len(text) :
                              at[x] = j \/ (x \in wide /\ at[x] + 1 = j)
                 IN  IF i \notin wide THEN LowerChar(text[i])
                     ELSE IF at[i] = j THEN "i" ELSE CombiningDot])

\* Word characters that are not in Alphabet: digits, the underscore and letters of
\* other alphabets (re.UNICODE \w is str.isalnum() or "_").
OtherWordChars == {
    "0", "1", "2", "3", "4", "5", "6", "7", "8", "9", "_",
    "U+00F6", "U+00FC", "U+00DF", "U+00F1", "U+00E7", "U+0159", "U+011B", "U+016F", "U+00F8", "U+00E5",
    "U+0130"
}

IsAlpha(c) == c \in Alphabet

\* \w of the re module on str patterns
IsWord(c) == c \in Alphabet \/ c \in DOMAIN LowerTable \/ c \in OtherWordChars

\* str.strip() whitespace
IsSpace(c) == c \in {" ", "\t", "\n", "\r"}

\* \b before 1-based index k of text (k in 1..Len(text)+1): exactly one of the
\* characters on either side is a word character.
Boundary(text, k) ==
    (k > 1 /\ IsWord(text[k - 1])) # (k <= Len(text) /\ IsWord(text[k]))

-----------------------------------------------------------------------------
(* extract_terms (lines 213-230)                                            *)

stop_words == {
    <<"t","h","e">>, <<"a">>, <<"a","n">>, <<"a","n","d">>, <<"o","r">>,
    <<"b","u","t">>, <<"i","n">>, <<"o","n">>, <<"a","t">>, <<"t","o">>,
    <<"f","o","r">>, <<"o","f">>, <<"w","i","t","h">>, <<"b","y">>,
    <<"f","r","o","m">>, <<"a","s">>, <<"i","s">>, <<"w","a","s">>,
    <<"a","r","e">>, <<"w","e","r","e">>, <<"b","e","e","n">>, <<"b","e">>,
    <<"h","a","v","e">>, <<"h","a","s">>, <<"h","a","d">>, <<"d","o">>,
    <<"d","o","e","s">>, <<"d","i","d">>, <<"w","i","l","l">>,
    <<"w","o","u","l","d">>, <<"s","h","o","u","l","d">>, <<"c","o","u","l","d">>,
    <<"m","a","y">>, <<"m","i","g","h","t">>, <<"m","u","s","t">>, <<"c","a","n">>,
    <<"t","h","i","s">>, <<"t","h","a","t">>, <<"t","h","e","s","e">>,
    <<"t","h","o","s","e">>, <<"i">>, <<"y","o","u">>, <<"h","e">>,
    <<"s","h","e">>, <<"i","t">>, <<"w","e">>, <<"t","h","e","y">>,
    <<"w","h","a","t">>, <<"w","h","i","c","h">>, <<"w","h","o">>,
    <<"w","h","e","n">>, <<"w","h","e","r","e">>, <<"w","h","y">>, <<"h","o","w">>
}

\* The length >= 3 of line 228.
MinTermLen == 3

RECURSIVE RunEnd(_, _)
\* First index >= i whose character is not in the class (Len(text)+1 if none):
\* the end of the greedy [..]+ started at i.
RunEnd(text, i) ==
    IF i > Len(text) \/ ~IsAlpha(text[i]) THEN i ELSE RunEnd(text, i + 1)

\* The regular expression \b[class]+\b tried at index i: 0 when it does not match,
\* else the index just past the match.  The + is greedy and backtracks, so the
\* match ends at the largest end position that is a word boundary.
WordMatchEnd(text, i) ==
    IF ~(i <= Len(text) /\ IsAlpha(text[i]) /\ Boundary(text, i)) THEN 0
    ELSE LET ends == {e \in (i + 1)..RunEnd(text, i) : Boundary(text, e)}
         IN  IF ends = {} THEN 0 ELSE MaxOf(ends)

\* re.findall: the non-overlapping matches, left to right.  A match starts at a
\* word boundary and covers its whole run of class characters, so no attempt
\* inside an earlier match can succeed and the matches are exactly the indices
\* at which the expression matches.
FindAllWords(text) ==
    LET starts == SortedSeq({i \in 1..Len(text) : WordMatchEnd(text, i) # 0})
    IN  Stored([k \in 1..Len(starts) |->
            SubSeq(text, starts[k], WordMatchEnd(text, starts[k]) - 1)])

\* len(w) > 3 in place of len(w) >= 3
KeepWordLonger(w) == w \notin stop_words /\ Len(w) > MinTermLen

\* line 228
KeepWord(w) == w \notin stop_words /\ Len(w) >= MinTermLen

extract_terms(text) == SelectSeq(FindAllWords(Lower(text)), KeepWord)

-----------------------------------------------------------------------------
(* collections.Counter as a sequence of <<key, count>> in insertion order.   *)

CounterKeys(c) == Stored([i \in 1..Len(c) |-> c[i][1]])

CounterHas(c, key) == \E i \in 1..Len(c) : c[i][1] = key

\* c[key]: 0 for a missing key (Counter.__missing__), which inserts nothing
CounterGet(c, key) ==
    IF CounterHas(c, key) THEN c[CHOOSE i \in 1..Len(c) : c[i][1] = key][2] ELSE 0

\* c[key] += 1 that forgets a key already present and appends a second entry.
CounterIncDuplicating(c, key) == Append(c, <<key, 1>>)

\* c[key] = 1 in place of c[key] += 1: the count never grows.
CounterSetOne(c, key) ==
    IF CounterHas(c, key) THEN c ELSE Append(c, <<key, 1>>)

\* c[key] += 1
CounterInc(c, key) ==
    IF CounterHas(c, key)
    THEN Stored([i \in 1..Len(c) |->
                    IF c[i][1] = key THEN <<key, c[i][2] + 1>> ELSE c[i]])
    ELSE Append(c, <<key, 1>>)

CountOf(item) == item[2]

\* A descending sort that puts elements of equal key in reverse order, as
\* sorted(seq, key=key)[::-1] does.
SortDescTiesReversed(seq, k) ==
    LET n == Len(seq)
        rank == Stored([i \in 1..n |->
                    Cardinality({j \in 1..n : k[j] > k[i] \/ (k[j] = k[i] /\ j > i)})])
    IN  Stored([r \in 1..n |-> seq[CHOOSE i \in 1..n : rank[i] = r - 1]])

\* most_common with ties in reverse insertion order
most_common_ties_reversed(c, n) == Take(SortDescTiesReversed(c, Stored([i \in 1..Len(c) |-> CountOf(c[i])])), n)

\* Counter.most_common(n) = heapq.nlargest(n, items, key=count), which is
\* sorted(items, key=count, reverse=True)[:n]: ties keep insertion order.
most_common(c, n) == Take(StableSortDesc(c, Stored([i \in 1..Len(c) |-> CountOf(c[i])])), n)

\* sum(c.values())
SumCounts(c) ==
    Cardinality(UNION {{<<i, u>> : u \in 1..c[i][2]} : i \in 1..Len(c)})

\* The loop of lines 67-68 run over all of terms: keys in order of first
\* occurrence, each with its number of occurrences.
CountTerms(ts) ==
    LET firsts == SortedSeq({i \in 1..Len(ts) : \A j \in 1..(i - 1) : ts[j] # ts[i]})
    IN  Stored([k \in 1..Len(firsts) |->
            <<ts[firsts[k]],
              Cardinality({j \in 1..Len(ts) : ts[j] = ts[firsts[k]]})>>])

-----------------------------------------------------------------------------
(* skip_metadata (lines 205-210)                                            *)

\* '## Extracted Text'
Marker == <<"#", "#", " ", "E", "x", "t", "r", "a", "c", "t", "e", "d", " ",
            "T", "e", "x", "t">>

\* content.rsplit(Marker, 1): the part after the last occurrence of the marker.
skip_metadata_after_last(text) ==
    LET occ == Occurrences(text, Marker)
    IN  IF occ = {} THEN text
        ELSE SubSeq(text, MaxOf(occ) + Len(Marker), Len(text))

\* content.split(Marker, 1): two parts exactly when the marker occurs; the second
\* part is what follows its first occurrence.
skip_metadata(text) ==
    LET occ == Occurrences(text, Marker)
    IN  IF occ = {} THEN text
        ELSE SubSeq(text, MinOf(occ) + Len(Marker), Len(text))

-----------------------------------------------------------------------------
(* extract_contexts (lines 233-253)                                         *)

\* window: int = 50 (line 233)
ContextWindow == 50

\* contexts[:3] (line 253) and [:3] (line 289)
MaxContexts == 3

\* str.strip()
Strip(s) ==
    LET keep == {i \in 1..Len(s) : ~IsSpace(s[i])}
    IN  IF keep = {} THEN <<>> ELSE SubSeq(s, MinOf(keep), MaxOf(keep))

RECURSIVE ScanMatches(_, _, _)
\* The while loop of lines 240-251 over the occurrences occ of the term, from
\* 1-based search position pos: text_lower.find gives the first occurrence at or
\* after pos, and the search resumes len(term) characters after it.
ScanMatches(occ, termLen, pos) ==
    LET rest == {k \in occ : k >= pos}
    IN  IF rest = {} THEN <<>>
        ELSE <<MinOf(rest)>> \o ScanMatches(occ, termLen, MinOf(rest) + termLen)

\* The snippet that ends window characters after the start of the match:
\* end = min(len(text), pos + window).
ContextAtFromStart(text, term, p, window) ==
    LET start == Max(0, (p - 1) - window)
        end   == Min(Len(text), (p - 1) + window)
    IN  Strip(Slice(text, start, end))

\* lines 245-248 for the match at 1-based index p (Python pos = p - 1)
ContextAt(text, term, p, window) ==
    LET start == Max(0, (p - 1) - window)
        end   == Min(Len(text), (p - 1) + Len(term) + window)
    IN  Strip(Slice(text, start, end))

extract_contexts(text, term, window) ==
    LET found == ScanMatches(Occurrences(Lower(text), Lower(term)), Len(term), 1)
    IN  Take([k \in 1..Len(found) |-> ContextAt(text, term, found[k], window)],
             MaxContexts)

-----------------------------------------------------------------------------
(* find_cooccurrences (lines 256-272)                                       *)

\* window: int = 100 (line 257)
CoocWindow == 100

\* defaultdict(Counter): a function from the keys present to their Counters
EmptyGraph == [t \in {} |-> <<>>]

\* graph[a][b], an absent entry counting as 0
GraphGet(g, a, b) == IF a \in DOMAIN g THEN CounterGet(g[a], b) ELSE 0

\* cooccurrences[a][b] += 1: the defaultdict creates the Counter of a when absent
GraphInc(g, a, b) ==
    Stored([t \in DOMAIN g \cup {a} |->
        IF t = a THEN CounterInc(IF a \in DOMAIN g THEN g[a] ELSE <<>>, b)
        ELSE g[t]])

\* A one-directional update: line 272 left out.
PairUpdateOneWay(g, term1, term2) == GraphInc(g, term1, term2)

\* The update of a pair that is already in the graph left out: a pair would be
\* counted once per document.
PairUpdateDeduplicated(g, term1, term2) ==
    IF GraphGet(g, term1, term2) > 0 THEN g
    ELSE GraphInc(GraphInc(g, term1, term2), term2, term1)

\* The update of a pair with term1 counted among its own neighbours as well.
PairUpdateWithSelf(g, term1, term2) ==
    GraphInc(GraphInc(GraphInc(g, term1, term2), term2, term1), term1, term1)

\* lines 271-272: the update of one pair, both directions
PairUpdate(g, term1, term2) == GraphInc(GraphInc(g, term1, term2), term2, term1)

\* line 262: re.finditer(r'\b' + re.escape(term1) + r'\b', text_lower), the
\* non-overlapping whole-word matches left to right, as 1-based indices
WordPositions(text_lower, term1) ==
    ScanMatches({k \in Occurrences(text_lower, term1) :
                    Boundary(text_lower, k) /\ Boundary(text_lower, k + Len(term1))},
                Len(term1), 1)

\* The window without its left half: text_lower[pos:min(len(text), pos + window)].
WindowTextAhead(text_lower, text_len, p, window) ==
    Slice(text_lower, p - 1, Min(text_len, (p - 1) + window))

\* The window with the character at pos + window included:
\* text_lower[max(0, pos - window):min(len(text), pos + window + 1)].
WindowTextClosed(text_lower, text_len, p, window) ==
    Slice(text_lower, Max(0, (p - 1) - window), Min(text_len, (p - 1) + window + 1))

\* lines 265-267 for the match at 1-based index p of text_lower (Python
\* pos = p - 1), text_len being len(text), the length of the text before
\* lower()
WindowText(text_lower, text_len, p, window) ==
    Slice(text_lower, Max(0, (p - 1) - window), Min(text_len, (p - 1) + window))

\* terms[i:] in place of terms[i+1:]: term1 would be paired with itself.
FirstTerm2FromSelf(i) == i

\* terms in place of terms[i+1:]: every term would be a candidate for term2, the
\* earlier-listed ones included.
FirstTerm2FromTop(i) == 1

\* terms[i+1:] of line 269: the index of the first candidate for term2
FirstTerm2(i) == i + 1

\* the indices of the candidates for term2
Term2Indices(ts, i) == FirstTerm2(i)..Len(ts)

\* The whole of find_cooccurrences on an empty graph, in closed form.  hits[i][k]
\* is the set of indices j of the terms term2 that line 270 finds in the window
\* of the k-th position of terms[i].  The count of the pair {i, j}, i < j, is the
\* number of positions of terms[i] that hit j.  The Counter of terms[x] receives
\* its keys in the order of the loops: first the earlier terms that hit x, in
\* list order, then the later terms x hits, by first hitting position and then
\* list order.
find_cooccurrences(text, ts, window) ==
    LET text_lower == Lower(text)
        n == Len(ts)
        pos == Stored([i \in 1..n |-> WordPositions(text_lower, ts[i])])
        hits == Stored([i \in 1..n |-> Stored([k \in 1..Len(pos[i]) |->
                    LET window_text == WindowText(text_lower, Len(text), pos[i][k], window)
                    IN  {j \in Term2Indices(ts, i) : Contains(window_text, ts[j])}])])
        count == Stored([i \in 1..n |-> Stored([j \in 1..n |->
                    Cardinality({k \in 1..Len(pos[i]) : j \in hits[i][k]})])])
        first == Stored([i \in 1..n |-> Stored([j \in 1..n |->
                    IF count[i][j] = 0 THEN 0
                    ELSE MinOf({k \in 1..Len(pos[i]) : j \in hits[i][k]})])])
        before == Stored([x \in 1..n |->
                    SortedSeq({i \in 1..(x - 1) : count[i][x] > 0})])
        after == Stored([x \in 1..n |->
                    LET js == {j \in 1..n : count[x][j] > 0}
                        order == SortedSeq({first[x][j] * (n + 1) + j : j \in js})
                    IN  Stored([r \in 1..Len(order) |-> order[r] % (n + 1)])])
        counter == Stored([x \in 1..n |->
                    [r \in 1..Len(before[x]) |->
                        <<ts[before[x][r]], count[before[x][r]][x]>>]
                    \o [r \in 1..Len(after[x]) |->
                        <<ts[after[x][r]], count[x][after[x][r]]>>]])
        present == {x \in 1..n : counter[x] # <<>>}
    IN  Stored([t \in {ts[x] : x \in present} |->
            counter[CHOOSE x \in present : ts[x] = t]])

-----------------------------------------------------------------------------
(* generate_insights (lines 275-344)                                        *)

\* most_common(30) of line 281
TopThemes == 30

\* most_common(5) of line 286
RelatedLimit == 5

\* dominant[:5] of line 331
DominantLimit == 5

\* 3 <= frequency <= 10 and [:5] of line 304
EmergingMin == 3

EmergingMax == 10

EmergingLimit == 5

\* dominant[:20] of line 310
ClusterScan == 20

\* related_terms[:3] of line 316
ClusterTerms == 3

\* clusters[:5] of line 333
ClusterLimit == 5

\* single_mentions[:10] of line 336
GapExamples == 10

\* The score without its leading factor: round(1 + 1.0 / (1.0 + frequency), 2),
\* which falls as the frequency grows.
ImportanceWithoutFrequency(frequency) ==
    LET num == 100 * (frequency + 2)
        den == frequency + 1
        q == num \div den
        r == num % den
    IN  IF 2 * r > den \/ (2 * r = den /\ q % 2 = 1) THEN q + 1 ELSE q

\* round(frequency * (1 + 1.0 / (1.0 + frequency)), 2) of lines 291 and 296, in
\* hundredths.  The exact value is 100 f (f + 2) / (f + 1), and Python rounds the
\* double to the nearest hundredth, ties to even; for every frequency below 39
\* the double product carries no error that moves the rounding, so the
\* integer rounding below is the value Python stores.
Importance100(frequency) ==
    LET num == 100 * frequency * (frequency + 2)
        den == frequency + 1
        q == num \div den
        r == num % den
    IN  IF 2 * r > den \/ (2 * r = den /\ q % 2 = 1) THEN q + 1 ELSE q

\* lines 282-287
RelatedTerms(cooc, term) ==
    IF term \in DOMAIN cooc
    THEN LET mc == most_common(cooc[term], RelatedLimit)
         IN  Stored([k \in 1..Len(mc) |-> [term |-> mc[k][1], strength |-> mc[k][2]]])
    ELSE <<>>

\* lines 289-299: the theme record of one (term, frequency) item
ThemeRecord(item, contexts, cooc) ==
    [term            |-> item[1],
     frequency       |-> item[2],
     importance      |-> Importance100(item[2]),
     related_terms   |-> RelatedTerms(cooc, item[1]),
     sample_contexts |-> Take(IF item[1] \in DOMAIN contexts
                              THEN contexts[item[1]] ELSE <<>>, MaxContexts)]

ImportanceOf(theme) == theme.importance

\* lines 280-301: the ranked theme list `dominant` after the sort
RankThemes(freqs, contexts, cooc) ==
    LET top == most_common(freqs, TopThemes)
        dominant == Stored([i \in 1..Len(top) |-> ThemeRecord(top[i], contexts, cooc)])
    IN  StableSortDesc(dominant,
                       Stored([i \in 1..Len(dominant) |-> ImportanceOf(dominant[i])]))

\* 3 < frequency < 10 in place of 3 <= frequency <= 10
IsEmergingExclusive(theme) ==
    EmergingMin < theme.frequency /\ theme.frequency < EmergingMax

IsEmerging(theme) == EmergingMin <= theme.frequency /\ theme.frequency <= EmergingMax

\* line 304
EmergingThemes(dominant) == Take(SelectSeq(dominant, IsEmerging), EmergingLimit)

\* A cluster whose total_mentions leaves out the central term's own frequency.
ClusterOfRelatedOnly(theme, freqs) ==
    LET related == Take(theme.related_terms, ClusterTerms)
        cluster_terms == Stored([k \in 1..Len(related) |-> related[k].term])
    IN  [central_term   |-> theme.term,
         related_terms  |-> cluster_terms,
         cohesion       |-> Len(cluster_terms) + 1,
         total_mentions |-> SumCounts([k \in 1..Len(cluster_terms) |->
                                  <<k, CounterGet(freqs, cluster_terms[k])>>])]

\* lines 316-323: the cluster of a theme that has related terms
ClusterOf(theme, freqs) ==
    LET related == Take(theme.related_terms, ClusterTerms)
        cluster_terms == Stored([k \in 1..Len(related) |-> related[k].term])
    IN  [central_term   |-> theme.term,
         related_terms  |-> cluster_terms,
         cohesion       |-> Len(cluster_terms) + 1,
         total_mentions |-> CounterGet(freqs, theme.term)
                            + SumCounts([k \in 1..Len(cluster_terms) |->
                                  <<k, CounterGet(freqs, cluster_terms[k])>>])]

RECURSIVE BuildClustersDistinctRelated(_, _, _, _)
\* The loop with the processed set applied to the related terms as well: a term
\* that is already a central term is left out of later clusters.
BuildClustersDistinctRelated(themes, freqs, i, processed) ==
    IF i > Len(themes) THEN <<>>
    ELSE IF themes[i].term \in processed \/ themes[i].related_terms = <<>>
         THEN BuildClustersDistinctRelated(themes, freqs, i + 1, processed)
         ELSE LET cluster == ClusterOf(themes[i], freqs)
                  unused(t) == t \notin processed
              IN  <<[cluster EXCEPT
                        !.related_terms = SelectSeq(cluster.related_terms, unused)]>>
                  \o BuildClustersDistinctRelated(themes, freqs, i + 1,
                                                  processed \cup {themes[i].term})

RECURSIVE BuildClusters(_, _, _, _)
\* lines 307-324: the loop over dominant[:20] from index i, with the clusters and
\* the processed set built so far
BuildClusters(themes, freqs, i, processed) ==
    IF i > Len(themes) THEN <<>>
    ELSE IF themes[i].term \in processed \/ themes[i].related_terms = <<>>
         THEN BuildClusters(themes, freqs, i + 1, processed)
         ELSE <<ClusterOf(themes[i], freqs)>>
              \o BuildClusters(themes, freqs, i + 1, processed \cup {themes[i].term})

\* count <= 2 in place of count == 1
IsAtMostTwice(item) == item[2] <= 2

\* the test of line 327
IsSingle(item) == item[2] = 1

\* The singleton list cut to the example limit before it is counted.
SingleMentionsCapped(freqs) == Take(CounterKeys(SelectSeq(freqs, IsSingle)), GapExamples)

\* line 327
SingleMentions(freqs) == CounterKeys(SelectSeq(freqs, IsSingle))

\* The last GapExamples singleton terms in place of the first ones.
ExampleTermsFromEnd(single_mentions) ==
    SubSeq(single_mentions, Max(1, Len(single_mentions) - GapExamples + 1),
           Len(single_mentions))

\* single_mentions[:10] of line 336
ExampleTerms(single_mentions) == Take(single_mentions, GapExamples)

generate_insights(freqs, contexts, cooc, source_filename) ==
    LET dominant == RankThemes(freqs, contexts, cooc)
        clusters == BuildClusters(Take(dominant, ClusterScan), freqs, 1, {})
        single_mentions == SingleMentions(freqs)
    IN  [source_file       |-> source_filename,
         dominant_themes   |-> Take(dominant, DominantLimit),
         emerging_themes   |-> EmergingThemes(dominant),
         concept_clusters  |-> Take(clusters, ClusterLimit),
         potential_gaps    |-> [count    |-> Len(single_mentions),
                                examples |-> ExampleTerms(single_mentions)],
         corpus_statistics |-> [unique_terms |-> Len(freqs),
                                total_terms  |-> SumCounts(freqs)]]

-----------------------------------------------------------------------------
(* analyze_themes (lines 41-110): the analysis of one document's text       *)

\* most_common(50) of line 71
SignificantLimit == 50

\* line 71
SignificantTerms(freqs) == CounterKeys(most_common(freqs, SignificantLimit))

\* lines 72-74: every significant term gets its list of contexts (an empty
\* defaultdict list extended by the contexts found)
SampleContexts(text, sig) ==
    Stored([t \in Range(sig) |-> extract_contexts(text, t, ContextWindow)])

\* lines 56-85 in one step: the insights of a document with the given file name
\* and file content
AnalyzeText(file_content, source_filename) ==
    LET text == skip_metadata(file_content)
        freqs == CountTerms(extract_terms(text))
        sig == SignificantTerms(freqs)
    IN  generate_insights(freqs, SampleContexts(text, sig),
                          find_cooccurrences(text, sig, CoocWindow), source_filename)

-----------------------------------------------------------------------------
(* The documents analysed.                                                  *)

\* markdown_file.name (line 84)
FileName == <<"d", "o", "c", ".", "m", "d">>

\* Length of the run of blanks that separates two passages of a document.
GapLen == 100

Gap == [i \in 1..GapLen |-> " "]

\* The pieces the documents of Spec are built from: three words followed by a
\* blank (one of them contains another), a capitalised word followed by nothing,
\* and a long run of blanks.
Tokens == {
    <<"a", "r", "t", " ">>,
    <<"p", "a", "r", "t", " ">>,
    <<"t", "e", "a", " ">>,
    <<"A", "r", "t">>,
    Gap
}

\* Largest number of pieces in a document of Spec.
MaxTokens == 4

RECURSIVE Flatten(_)
Flatten(ss) == IF ss = <<>> THEN <<>> ELSE Head(ss) \o Flatten(Tail(ss))

\* Every concatenation of at most n pieces.
TokenTexts(n) == UNION {{Flatten(ss) : ss \in [1..k -> Tokens]} : k \in 0..n}

-----------------------------------------------------------------------------
(* analyze_themes step by step (lines 52-85).                               *)

\* The state before the file is read; the structures of lines 59-61 are the
\* empty ones a call creates.
Fresh ==
    /\ pc = "read"
    /\ content = <<>>
    /\ terms = <<>>
    /\ term_frequencies = <<>>
    /\ counted = 0
    /\ significant_terms = <<>>
    /\ term_contexts = EmptyGraph
    /\ cooccurrences = EmptyGraph
    /\ ci = 1
    /\ positions = <<>>
    /\ cp = 1
    /\ cj = 1
    /\ insights = <<>>
    /\ scan_pos = 0
    /\ scan_contexts = <<>>
    /\ scan_matches = <<>>

\* One analysis of one document called doc.md: no caller state, no writes yet.
NoSession ==
    /\ markdown_file = FileName
    /\ entry = "single"
    /\ input_dir = TRUE
    /\ md_files = <<>>
    /\ bpc = "running"
    /\ bi = 0
    /\ returned = <<>>
    /\ batch_processed = <<>>
    /\ batch_failed = <<>>
    /\ all_term_frequencies = <<>>
    /\ batch_result = <<>>
    /\ out_dir = TRUE
    /\ written = <<>>
    /\ now = 0

Init == raw \in TokenTexts(MaxTokens) /\ Fresh /\ NoSession

\* The structures of lines 59-61 kept from the call before, as if they were
\* created once for all calls.
ReadDocumentKeeping ==
    /\ pc = "read"
    /\ content' = skip_metadata(raw)
    /\ pc' = "extract"
    /\ UNCHANGED <<raw, terms, term_frequencies, counted, significant_terms,
                   term_contexts, cooccurrences, ci, positions, cp, cj, insights>>

\* lines 52-61: read the file, skip the metadata, create the empty structures
ReadDocument ==
    /\ pc = "read"
    /\ content' = skip_metadata(raw)
    /\ term_frequencies' = <<>>
    /\ term_contexts' = EmptyGraph
    /\ cooccurrences' = EmptyGraph
    /\ pc' = "extract"
    /\ UNCHANGED <<raw, terms, counted, significant_terms, ci, positions, cp, cj,
                   insights>>

\* line 64
ExtractTerms ==
    /\ pc = "extract"
    /\ terms' = extract_terms(content)
    /\ counted' = 0
    /\ pc' = "count"
    /\ UNCHANGED <<raw, content, term_frequencies, significant_terms, term_contexts,
                   cooccurrences, ci, positions, cp, cj, insights>>

\* lines 67-68: one iteration of the counting loop
CountTerm ==
    /\ pc = "count"
    /\ counted < Len(terms)
    /\ term_frequencies' = CounterInc(term_frequencies, terms[counted + 1])
    /\ counted' = counted + 1
    /\ UNCHANGED <<pc, raw, content, terms, significant_terms, term_contexts,
                   cooccurrences, ci, positions, cp, cj, insights>>

\* lines 71-74, once the counting loop has ended; then find_cooccurrences is
\* entered (line 77)
SampleTermContexts ==
    /\ pc = "count"
    /\ counted = Len(terms)
    /\ significant_terms' = SignificantTerms(term_frequencies)
    /\ term_contexts' = SampleContexts(content, SignificantTerms(term_frequencies))
    /\ ci' = 1
    /\ pc' = "cooc_term"
    /\ UNCHANGED <<raw, content, terms, term_frequencies, counted, cooccurrences,
                   positions, cp, cj, insights>>

\* lines 261-262: the outer loop takes term1 = terms[ci] and finds its positions,
\* or ends
CoocNextTerm ==
    /\ pc = "cooc_term"
    /\ IF ci <= Len(significant_terms)
       THEN /\ positions' = WordPositions(Lower(content), significant_terms[ci])
            /\ cp' = 1
            /\ pc' = "cooc_pos"
       ELSE /\ pc' = "insights"
            /\ UNCHANGED <<positions, cp>>
    /\ UNCHANGED <<raw, content, terms, term_frequencies, counted, significant_terms,
                   term_contexts, cooccurrences, ci, cj, insights>>

\* lines 264-269: the loop over positions takes pos = positions[cp] and starts the
\* loop over terms[i+1:], or ends and the outer loop moves on
CoocNextPos ==
    /\ pc = "cooc_pos"
    /\ IF cp <= Len(positions)
       THEN /\ cj' = FirstTerm2(ci)
            /\ pc' = "cooc_pair"
            /\ UNCHANGED ci
       ELSE /\ ci' = ci + 1
            /\ pc' = "cooc_term"
            /\ UNCHANGED cj
    /\ UNCHANGED <<raw, content, terms, term_frequencies, counted, significant_terms,
                   term_contexts, cooccurrences, positions, cp, insights>>

\* lines 269-272: one iteration of the loop over term2 = terms[cj], or its end
CoocPair ==
    /\ pc = "cooc_pair"
    /\ IF cj <= Len(significant_terms)
       THEN /\ cooccurrences' =
                IF Contains(WindowText(Lower(content), Len(content), positions[cp],
                                       CoocWindow),
                            significant_terms[cj])
                THEN PairUpdate(cooccurrences, significant_terms[ci],
                                significant_terms[cj])
                ELSE cooccurrences
            /\ cj' = cj + 1
            /\ UNCHANGED <<pc, cp>>
       ELSE /\ cp' = cp + 1
            /\ pc' = "cooc_pos"
            /\ UNCHANGED <<cooccurrences, cj>>
    /\ UNCHANGED <<raw, content, terms, term_frequencies, counted, significant_terms,
                   term_contexts, ci, positions, insights>>

\* lines 80-85
GenerateInsights ==
    /\ pc = "insights"
    /\ insights' = generate_insights(term_frequencies, term_contexts, cooccurrences,
                                     markdown_file)
    /\ pc' = "done"
    /\ UNCHANGED <<raw, content, terms, term_frequencies, counted, significant_terms,
                   term_contexts, cooccurrences, ci, positions, cp, cj>>

Next ==
    \/ ReadDocument /\ UNCHANGED <<session, scan>>
    \/ ExtractTerms /\ UNCHANGED <<session, scan>>
    \/ CountTerm /\ UNCHANGED <<session, scan>>
    \/ SampleTermContexts /\ UNCHANGED <<session, scan>>
    \/ CoocNextTerm /\ UNCHANGED <<session, scan>>
    \/ CoocNextPos /\ UNCHANGED <<session, scan>>
    \/ CoocPair /\ UNCHANGED <<session, scan>>
    \/ GenerateInsights /\ UNCHANGED <<session, scan>>

Spec == Init /\ [][Next]_vars

\* The step-by-step run ends with what the one-step definitions compute.
StepsAgree ==
    pc = "done" =>
        /\ term_frequencies = CountTerms(terms)
        /\ cooccurrences = find_cooccurrences(content, significant_terms, CoocWindow)
        /\ insights = AnalyzeText(raw, FileName)

-----------------------------------------------------------------------------
(* Properties of the co-occurrence graph and the frequency table (Spec).    *)

\* Every term that occurs in the graph, as a key or inside a Counter.
GraphTerms(g) == DOMAIN g \cup UNION {Range(CounterKeys(g[t])) : t \in DOMAIN g}

\* The 0-based positions at which term occurs in text as a whole word, ignoring
\* case: the characters before and after the occurrence are not word characters.
WholeWordAt(text, term) ==
    {p \in 0..(Len(text) - Len(term)) :
        /\ \A d \in 1..Len(term) : LowerChar(text[p + d]) = LowerChar(term[d])
        /\ p = 0 \/ ~IsWord(text[p])
        /\ p + Len(term) = Len(text) \/ ~IsWord(text[p + Len(term) + 1])}

\* term2 appears, ignoring case, with all its characters at 0-based indices
\* lo .. hi - 1 of text.
AppearsWithin(text, term2, lo, hi) ==
    \E q \in Max(0, lo)..(Min(Len(text), hi) - Len(term2)) :
        \A d \in 1..Len(term2) : LowerChar(text[q + d]) = LowerChar(term2[d])

\* The number of whole-word occurrences of a whose window [pos - R, pos + R)
\* contains b.
WindowHits(text, a, b) ==
    Cardinality({p \in WholeWordAt(text, a) :
                    AppearsWithin(text, b, p - CoocWindow, p + CoocWindow)})

\* C1: in every state of the analysis, so after every completed pair update and
\* when find_cooccurrences has finished, graph[a][b] = graph[b][a] for all terms
\* a and b, an absent entry counting as 0.
C1_GraphSymmetric ==
    \A a \in GraphTerms(cooccurrences) \cup Range(significant_terms) :
        \A b \in GraphTerms(cooccurrences) \cup Range(significant_terms) :
            GraphGet(cooccurrences, a, b) = GraphGet(cooccurrences, b, a)

\* A finished analysis whose graph holds a pair counted more than once.
C1_Witness ==
    /\ pc = "done"
    /\ \E a \in DOMAIN cooccurrences : \E b \in DOMAIN cooccurrences :
           a # b /\ GraphGet(cooccurrences, a, b) >= 2

\* C2 as stated: when find_cooccurrences has finished, graph[a][b] is the number
\* of occurrences of a whose window contains b plus the number of occurrences of
\* b whose window contains a, for all distinct significant terms a and b.
C2_CountsBothScans ==
    pc \in {"insights", "done"} =>
        \A a \in Range(significant_terms) : \A b \in Range(significant_terms) :
            a # b => GraphGet(cooccurrences, a, b)
                        = WindowHits(content, a, b) + WindowHits(content, b, a)

\* C2 amended: only the occurrences of the earlier-listed term of a pair are
\* scanned.  When find_cooccurrences has finished, for significant terms a
\* listed before b, graph[a][b] = graph[b][a] = the number of whole-word
\* occurrences of a whose window contains b as a substring.
C2_CountsEarlierTermScan ==
    pc \in {"insights", "done"} =>
        \A i \in 1..Len(significant_terms) : \A j \in (i + 1)..Len(significant_terms) :
            LET a == significant_terms[i]
                b == significant_terms[j]
            IN  /\ GraphGet(cooccurrences, a, b) = WindowHits(content, a, b)
                /\ GraphGet(cooccurrences, b, a) = WindowHits(content, a, b)

\* A finished scan with a pair whose earlier term has two occurrences, one with
\* the later term in its window and one without, while the later term has the
\* earlier one in the window of an occurrence of its own.
C2_Witness ==
    /\ pc = "done"
    /\ \E i \in 1..Len(significant_terms) : \E j \in (i + 1)..Len(significant_terms) :
           LET a == significant_terms[i]
               b == significant_terms[j]
           IN  /\ Cardinality(WholeWordAt(content, a)) >= 2
               /\ WindowHits(content, a, b) = 1
               /\ WindowHits(content, b, a) >= 1
               /\ GraphGet(cooccurrences, a, b) = 1

\* C4: during the counting pass the counts sum to the number of terms consumed,
\* so after it to the length of the term sequence; the emitted total_terms is
\* that length and unique_terms is the number of distinct terms.
C4_FrequencySum ==
    /\ pc = "count" => SumCounts(term_frequencies) = counted
    /\ pc \notin {"read", "extract", "count"} =>
           SumCounts(term_frequencies) = Len(terms)
    /\ pc = "done" =>
           /\ insights.corpus_statistics.total_terms = Len(terms)
           /\ insights.corpus_statistics.unique_terms = Cardinality(Range(terms))

\* A finished analysis of a text with a repeated term and a second term.
C4_Witness ==
    /\ pc = "done"
    /\ Len(terms) >= 3
    /\ Cardinality(Range(terms)) = 2
    /\ insights.corpus_statistics.total_terms = Len(terms)

\* C9: when the text has exactly one distinct term, the graph stays empty
\* throughout the analysis and concept_clusters is the empty list.
C9_SingleTermNoClusters ==
    (pc \notin {"read", "extract"} /\ Cardinality(Range(terms)) = 1) =>
        /\ cooccurrences = EmptyGraph
        /\ pc = "done" => insights.concept_clusters = <<>>

\* A finished analysis of a text whose only term occurs more than once.
C9_Witness ==
    /\ pc = "done"
    /\ Cardinality(Range(terms)) = 1
    /\ Len(terms) >= 2
    /\ insights.concept_clusters = <<>>

-----------------------------------------------------------------------------
(* extract_terms on every short text over a small set of characters.        *)

\* Two letters of the class, an upper-case accented letter whose lower case is in
\* the class (E-acute), a blank, a digit and a letter outside the class
\* (o-umlaut).  "did" and "i" are stop words.
TermChars == {"d", "i", "U+00C9", " ", "1", "U+00F6"}

\* Largest length of a text of SpecTerms.
MaxChars == 5

CharTexts(n) == UNION {[1..k -> TermChars] : k \in 0..n}

InitTerms == raw \in CharTexts(MaxChars) /\ Fresh /\ NoSession

NextTerms ==
    \/ ReadDocument /\ UNCHANGED <<session, scan>>
    \/ ExtractTerms /\ UNCHANGED <<session, scan>>

SpecTerms == InitTerms /\ [][NextTerms]_vars

\* The maximal runs of class letters of a lower-cased text, as <<first, last>>
\* index pairs; with delimited, only the runs that have no word character
\* (digit, underscore, other letter) directly before or after them.
AlphabetRuns(l, delimited) ==
    {r \in (1..Len(l)) \X (1..Len(l)) :
        /\ r[1] <= r[2]
        /\ \A k \in r[1]..r[2] : IsAlpha(l[k])
        /\ r[1] = 1 \/ ~IsAlpha(l[r[1] - 1])
        /\ r[2] = Len(l) \/ ~IsAlpha(l[r[2] + 1])
        /\ delimited => (r[1] = 1 \/ ~IsWord(l[r[1] - 1]))
        /\ delimited => (r[2] = Len(l) \/ ~IsWord(l[r[2] + 1]))}

\* The runs in text order, without the runs shorter than 3 characters and the
\* stop words.
FilteredRuns(text, delimited) ==
    LET l == [i \in 1..Len(text) |-> LowerChar(text[i])]
        runs == AlphabetRuns(l, delimited)
        firsts == SortedSeq({r[1] : r \in runs})
        run(k) == CHOOSE r \in runs : r[1] = firsts[k]
        words == [k \in 1..Len(firsts) |-> SubSeq(l, run(k)[1], run(k)[2])]
    IN  SelectSeq(words, LAMBDA w : Len(w) >= 3 /\ w \notin stop_words)

\* C3 as stated: the terms are the maximal runs of class letters of the
\* lower-cased text, in order, without the short runs and the stop words; a run
\* next to a digit, an underscore or another letter is extracted too.
C3_AllMaximalRuns ==
    pc = "count" => terms = FilteredRuns(content, FALSE)

\* C3 amended: the terms are the maximal runs of class letters of the lower-cased
\* text that have no word character (digit, underscore, letter outside the class)
\* directly before or after them, in text order and not deduplicated, without
\* the runs shorter than 3 characters and the stop words.
C3_DelimitedRuns ==
    pc = "count" => terms = FilteredRuns(content, TRUE)

\* An extraction that lower-cases an upper-case accented letter into a kept term,
\* from a text that also holds a character outside the class.
C3_Witness ==
    /\ pc = "count"
    /\ Len(terms) = 1
    /\ "U+00E9" \in Range(terms[1])
    /\ "U+00C9" \in Range(content)
    /\ Len(content) > Len(terms[1])

-----------------------------------------------------------------------------
(* The whole analysis in one step, on documents with many terms.            *)

Letters == <<"b", "c", "d", "f">>

\* The k-th word of these documents, followed by a blank: 64 different words of
\* three letters, none a stop word.
Word(k) ==
    <<Letters[(((k - 1) \div 16) % 4) + 1], Letters[(((k - 1) \div 4) % 4) + 1],
      Letters[((k - 1) % 4) + 1], " ">>

\* A passage: n new words, the first of them Word(first), each written rep times
\* in a row; with near the words follow each other directly, otherwise a run of
\* GapLen blanks follows every word's repetitions.
PassageText(first, n, rep, near) ==
    LET group == 4 * rep + (IF near THEN 0 ELSE GapLen)
    IN  [i \in 1..(n * group) |->
            LET g == (i - 1) \div group
                o == (i - 1) % group
            IN  IF o < 4 * rep THEN Word(first + g)[(o % 4) + 1] ELSE " "]

\* Numbers of words and of repetitions of a passage, around the limits the code
\* uses (5 themes, 10 examples, 20 cluster candidates, 30 ranked themes; the
\* emerging range 3..10).
PassageWords == {1, 2, 6, 11, 21, 31}

PassageReps == {1, 2, 3, 10, 11}

\* Only passages of at most this many words are written with gaps.
MaxFarWords == 2

\* Largest number of word occurrences in a document of SpecInsights.
MaxDocWords == 36

Passages ==
    {p \in [n : PassageWords \cup {0}, rep : PassageReps, near : BOOLEAN] :
        /\ p.n * p.rep <= MaxDocWords
        /\ ~p.near => p.n <= MaxFarWords
        /\ p.n = 0 => (p.rep = 1 /\ p.near)}

\* A document is a first passage followed by a second one (either may be empty).
PassageDocs ==
    {PassageText(1, d[1].n, d[1].rep, d[1].near)
        \o PassageText(d[1].n + 1, d[2].n, d[2].rep, d[2].near) :
     d \in {e \in Passages \X Passages :
                e[1].n * e[1].rep + e[2].n * e[2].rep <= MaxDocWords}}

\* Three longer documents: 26 terms of frequency 11 before 5 terms of frequency 3
\* (a term of the emerging range falls outside the 30 ranked themes), 60
\* terms (more than the 50 significant ones), and 13 singleton terms that are
\* not met in alphabetical order, with two terms of frequency 2 among them.
LongDocs == {
    PassageText(1, 26, 11, TRUE) \o PassageText(27, 5, 3, TRUE),
    PassageText(1, 40, 1, TRUE) \o PassageText(41, 20, 2, TRUE),
    PassageText(30, 2, 1, TRUE) \o PassageText(1, 2, 2, TRUE)
        \o PassageText(10, 10, 1, TRUE) \o PassageText(5, 1, 1, TRUE)
}

InitInsights == raw \in PassageDocs \cup LongDocs /\ Fresh /\ NoSession

\* lines 52-85 in one step
AnalyzeDocument ==
    /\ pc = "read"
    /\ LET text == skip_metadata(raw)
           ts == extract_terms(text)
           freqs == CountTerms(ts)
           sig == SignificantTerms(freqs)
           contexts == SampleContexts(text, sig)
           cooc == find_cooccurrences(text, sig, CoocWindow)
       IN  /\ content' = text
           /\ terms' = ts
           /\ counted' = Len(ts)
           /\ term_frequencies' = freqs
           /\ significant_terms' = sig
           /\ term_contexts' = contexts
           /\ cooccurrences' = cooc
           /\ insights' = generate_insights(freqs, contexts, cooc, FileName)
    /\ pc' = "done"
    /\ UNCHANGED <<raw, ci, positions, cp, cj>>

NextInsights == AnalyzeDocument /\ UNCHANGED <<session, scan>>

SpecInsights == InitInsights /\ [][NextInsights]_vars

-----------------------------------------------------------------------------
(* Properties of the ranking, the themes, the clusters and the gaps          *)
(* (SpecInsights).                                                          *)

\* The list `dominant` of generate_insights after its sort (line 301).
Ranked == RankThemes(term_frequencies, term_contexts, cooccurrences)

\* The number of times t occurs in the extracted term sequence.
FreqOf(t) == Cardinality({k \in 1..Len(terms) : terms[k] = t})

\* The index of the first occurrence of t in the extracted term sequence.
FirstAt(t) == MinOf({k \in 1..Len(terms) : terms[k] = t})

\* t comes before u in the frequency ranking: higher frequency, or the same
\* frequency and encountered first.
FrequencyBefore(t, u) ==
    FreqOf(t) > FreqOf(u) \/ (FreqOf(t) = FreqOf(u) /\ FirstAt(t) < FirstAt(u))

\* t comes before u in the ranking by importance, ties in frequency-ranking order.
RankedBefore(t, u) ==
    \/ Importance100(FreqOf(t)) > Importance100(FreqOf(u))
    \/ Importance100(FreqOf(t)) = Importance100(FreqOf(u)) /\ FrequencyBefore(t, u)

\* The sum of the frequencies of the terms of a sequence.
FreqSum(ts) ==
    Cardinality(UNION {{<<k, u>> : u \in 1..FreqOf(ts[k])} : k \in 1..Len(ts)})

\* C5: no lower-frequency term stands before a higher-frequency term in the
\* ranked theme list, whose frequencies are the terms' frequencies.
C5_RankingKeepsFrequencyOrder ==
    pc = "done" =>
        LET d == Ranked
        IN  /\ \A i \in 1..Len(d) : d[i].frequency = FreqOf(d[i].term)
            /\ \A i \in 1..Len(d) : \A j \in (i + 1)..Len(d) :
                   d[i].frequency >= d[j].frequency

\* A document with more than 30 terms whose ranking moves a term of higher
\* frequency ahead of terms encountered before it.
C5_Witness ==
    /\ pc = "done"
    /\ Len(term_frequencies) > 30
    /\ LET d == Ranked
       IN  /\ Len(d) = 30
           /\ \E i \in 1..Len(d) : \E j \in (i + 1)..Len(d) :
                  /\ d[i].frequency > d[j].frequency
                  /\ FirstAt(d[i].term) > FirstAt(d[j].term)

\* C6: dominant_themes has min(5, number of unique terms) entries; they are the
\* first entries of the ranking by importance in which terms of equal importance
\* stand in frequency-ranking order, equal frequencies in order of first
\* encounter: each entry ranks before the next, and the last before every term
\* left out.
C6_DominantThemes ==
    pc = "done" =>
        LET D == insights.dominant_themes
            U == Range(terms)
            chosen == {D[k].term : k \in 1..Len(D)}
        IN  /\ Len(D) = Min(5, Cardinality(U))
            /\ \A k \in 1..Len(D) :
                   /\ D[k].term \in U
                   /\ D[k].frequency = FreqOf(D[k].term)
                   /\ D[k].importance = Importance100(FreqOf(D[k].term))
            /\ \A k \in 1..(Len(D) - 1) : RankedBefore(D[k].term, D[k + 1].term)
            /\ \A t \in U \ chosen : RankedBefore(D[Len(D)].term, t)

\* More than five terms, the fifth and the sixth of equal frequency, and a term
\* of lower rank encountered before the first theme.
C6_Witness ==
    /\ pc = "done"
    /\ Cardinality(Range(terms)) > 5
    /\ Len(insights.dominant_themes) = 5
    /\ \E t \in Range(terms) \ {insights.dominant_themes[k].term : k \in 1..5} :
           FreqOf(t) = insights.dominant_themes[5].frequency
    /\ FirstAt(insights.dominant_themes[1].term) > 1

\* C7: emerging_themes is the list of the first (at most 5) entries of the ranked
\* list whose frequency is in 3..10, in ranked order; every entry has a frequency
\* in 3..10 and is one of the 30 first terms of the frequency ranking.
C7_EmergingThemes ==
    pc = "done" =>
        LET d == Ranked
            E == insights.emerging_themes
            Q == SortedSeq({i \in 1..Len(d) :
                               3 <= d[i].frequency /\ d[i].frequency <= 10})
        IN  /\ Len(E) = Min(5, Len(Q))
            /\ \A k \in 1..Len(E) :
                   /\ E[k] = d[Q[k]]
                   /\ 3 <= FreqOf(E[k].term) /\ FreqOf(E[k].term) <= 10
                   /\ Cardinality({u \in Range(terms) :
                                      FrequencyBefore(u, E[k].term)}) < 30

\* Five emerging themes chosen among more than five candidates, behind a theme
\* whose frequency is above the range.
C7_Witness ==
    /\ pc = "done"
    /\ Len(insights.emerging_themes) = 5
    /\ Cardinality({t \in Range(terms) : 3 <= FreqOf(t) /\ FreqOf(t) <= 10}) > 5
    /\ Ranked[1].frequency > 10
    /\ insights.emerging_themes[1] = Ranked[2]

\* A term of the emerging range that is outside the 30 ranked themes and is left
\* out although fewer than 5 emerging themes were found.
C7_OutsideRankedReached ==
    /\ pc = "done"
    /\ Len(insights.emerging_themes) < 5
    /\ \E t \in Range(terms) :
           /\ 3 <= FreqOf(t) /\ FreqOf(t) <= 10
           /\ \A k \in 1..Len(insights.emerging_themes) :
                  insights.emerging_themes[k].term # t

\* The co-occurring neighbours of term t.
Neighbours(t) == {u \in GraphTerms(cooccurrences) : GraphGet(cooccurrences, t, u) > 0}

\* C8: at most 5 clusters are emitted, in the ranked order of their central
\* terms.  Every central term is one of the first 20 ranked themes and has a
\* neighbour; related_terms are min(3, number of neighbours) different neighbours
\* of it, none weaker than a neighbour left out, strongest first; cohesion is
\* their number plus 1 and total_mentions the frequency of the central term plus
\* the frequencies of the related terms.
C8_Clusters ==
    pc = "done" =>
        LET d == Ranked
            C == insights.concept_clusters
            at == [k \in 1..Len(C) |->
                      {i \in 1..Min(20, Len(d)) : d[i].term = C[k].central_term}]
        IN  /\ Len(C) <= 5
            /\ \A k \in 1..Len(C) :
                   LET c == C[k].central_term
                       R == C[k].related_terms
                   IN  /\ at[k] # {}
                       /\ Neighbours(c) # {}
                       /\ Len(R) = Min(3, Cardinality(Neighbours(c)))
                       /\ Cardinality(Range(R)) = Len(R)
                       /\ Range(R) \subseteq Neighbours(c)
                       /\ \A x \in 1..Len(R) : \A u \in Neighbours(c) \ Range(R) :
                              GraphGet(cooccurrences, c, u)
                                  <= GraphGet(cooccurrences, c, R[x])
                       /\ \A x \in 1..(Len(R) - 1) :
                              GraphGet(cooccurrences, c, R[x])
                                  >= GraphGet(cooccurrences, c, R[x + 1])
                       /\ C[k].cohesion = Len(R) + 1
                       /\ C[k].total_mentions = FreqOf(c) + FreqSum(R)
            /\ \A k \in 1..(Len(C) - 1) :
                   \A i \in at[k] : \A j \in at[k + 1] : i < j

\* Five clusters, the first behind a ranked theme without neighbours, the
\* central terms having more than three neighbours and the themes with
\* neighbours being more than five.
C8_Witness ==
    /\ pc = "done"
    /\ Len(insights.concept_clusters) = 5
    /\ Ranked[1].related_terms = <<>>
    /\ Cardinality(Neighbours(insights.concept_clusters[1].central_term)) > 3
    /\ Len(insights.concept_clusters[1].related_terms) = 3
    /\ Cardinality({i \in 1..Len(Ranked) : Ranked[i].related_terms # <<>>}) > 5

\* C10: potential_gaps.count is the number of distinct terms of frequency
\* exactly 1, whatever the length of the examples list.
C10_GapCount ==
    pc = "done" =>
        insights.potential_gaps.count
            = Cardinality({t \in Range(terms) : FreqOf(t) = 1})

\* More than ten singleton terms, ten examples, and a term that is no singleton.
C10_Witness ==
    /\ pc = "done"
    /\ insights.potential_gaps.count > 10
    /\ Len(insights.potential_gaps.examples) = 10
    /\ \E t \in Range(terms) : FreqOf(t) > 1

\* The terms of frequency exactly 1.
Singletons == {t \in Range(terms) : FreqOf(t) = 1}

\* C11 as stated: every term of frequency exactly 1 is in
\* potential_gaps.examples.
C11_EverySingletonListed ==
    pc = "done" => Singletons \subseteq Range(insights.potential_gaps.examples)

\* C11 amended: a term of frequency exactly 1 is in potential_gaps.examples
\* exactly when fewer than 10 singleton terms are first met before it.
C11_FirstTenSingletonsListed ==
    pc = "done" =>
        \A t \in Singletons :
            t \in Range(insights.potential_gaps.examples)
                <=> Cardinality({u \in Singletons : FirstAt(u) < FirstAt(t)}) < 10

\* More than ten singleton terms: ten are listed and one is left out.
C11_Witness ==
    /\ pc = "done"
    /\ Cardinality(Singletons) > 10
    /\ Cardinality(Singletons \cap Range(insights.potential_gaps.examples)) = 10
    /\ Singletons \ Range(insights.potential_gaps.examples) # {}

\* C12: potential_gaps.examples holds at most 10 terms, each of frequency
\* exactly 1: they are the first min(10, number of singletons) singleton terms in
\* the order of their first occurrence in the document.
C12_ExamplesInEncounterOrder ==
    pc = "done" =>
        LET ex == insights.potential_gaps.examples
        IN  /\ Len(ex) <= 10
            /\ Len(ex) = Min(10, Cardinality(Singletons))
            /\ \A k \in 1..Len(ex) :
                   /\ FreqOf(ex[k]) = 1
                   /\ Cardinality({u \in Singletons : FirstAt(u) < FirstAt(ex[k])})
                          = k - 1

\* Ten examples that begin with "cfc" and leave out "bcb", the first singleton
\* of the alphabet, which is met last; a term of frequency 2 is met before some
\* of the examples.
C12_Witness ==
    /\ pc = "done"
    /\ Len(insights.potential_gaps.examples) = 10
    /\ insights.potential_gaps.examples[1] = <<"c", "f", "c">>
    /\ <<"b", "c", "b">> \in Singletons \ Range(insights.potential_gaps.examples)
    /\ \E t \in Range(terms) :
           FreqOf(t) = 2 /\ FirstAt(t) < FirstAt(insights.potential_gaps.examples[10])

\* The 0-based positions at which term occurs in text as a substring, ignoring
\* case.
SubstringAt(text, term) ==
    {p \in 0..(Len(text) - Len(term)) :
        \A d \in 1..Len(term) : LowerChar(text[p + d]) = LowerChar(term[d])}

\* The positions of the first three occurrences found: the first occurrence,
\* then the first one that starts at or after the end of the one before.
FirstThreeFound(text, term) ==
    LET S1 == SubstringAt(text, term)
        S2 == {p \in S1 : p >= MinOf(S1) + Len(term)}
        S3 == {p \in S2 : p >= MinOf(S2) + Len(term)}
    IN  IF S1 = {} THEN <<>>
        ELSE IF S2 = {} THEN <<MinOf(S1)>>
        ELSE IF S3 = {} THEN <<MinOf(S1), MinOf(S2)>>
        ELSE <<MinOf(S1), MinOf(S2), MinOf(S3)>>

\* The characters of text at 0-based indices lo .. hi - 1 without the whitespace
\* at the two ends.
TrimmedRange(text, lo, hi) ==
    LET keep == {i \in (lo + 1)..hi : ~IsSpace(text[i])}
    IN  IF keep = {} THEN <<>>
        ELSE [k \in 1..(MaxOf(keep) - MinOf(keep) + 1) |-> text[MinOf(keep) + k - 1]]

\* C20: every significant term has at most 3 snippets, those of the first 3
\* occurrences found, in document order; the snippet of the occurrence at pos is
\* the text from max(0, pos - 50) to min(len(text), pos + len(term) + 50)
\* without the whitespace around it, at most 2 * 50 + len(term) characters.
C20_ContextSnippets ==
    pc = "done" =>
        \A t \in Range(significant_terms) :
            LET found == FirstThreeFound(content, t)
                snippets == term_contexts[t]
            IN  /\ Len(snippets) <= 3
                /\ Len(snippets) = Len(found)
                /\ \A k \in 1..Len(snippets) :
                       /\ snippets[k] =
                              TrimmedRange(content, Max(0, found[k] - 50),
                                           Min(Len(content), found[k] + Len(t) + 50))
                       /\ Len(snippets[k]) <= 2 * 50 + Len(t)

\* A term with more than three occurrences has three snippets, the first cut at
\* the start of the document; a snippet has the full length of 103 characters;
\* and a snippet is shorter than the range it was cut from, its whitespace
\* trimmed.
C20_Witness ==
    /\ pc = "done"
    /\ \E t \in Range(significant_terms) :
           /\ Cardinality(SubstringAt(content, t)) > 3
           /\ Len(term_contexts[t]) = 3
           /\ FirstThreeFound(content, t)[1] < 50
    /\ \E u \in Range(significant_terms) : \E k \in 1..Len(term_contexts[u]) :
           Len(term_contexts[u][k]) = 2 * 50 + Len(u)
    /\ \E u \in Range(significant_terms) : \E k \in 1..Len(term_contexts[u]) :
           LET p == FirstThreeFound(content, u)[k]
           IN  Len(term_contexts[u][k])
                   < Min(Len(content), p + Len(u) + 50) - Max(0, p - 50)

-----------------------------------------------------------------------------
(* Calls of analyze_themes one after the other, by a client ("direct") or by  *)
(* analyze_themes_batch ("batch", lines 114-202), with the files they write.  *)

\* The files: name is markdown_file.name, base is markdown_file.stem.  A file
\* holds text, or does not exist ("missing"), or cannot be read as UTF-8 text
\* ("unreadable": open or read raises).  a.md has six terms of frequency 1, the
\* sixth not among its five dominant themes; that term is the dominant theme of
\* b.md.  c.md to f.md have five terms each, different from all others.  g.md is
\* empty and h.md has no term.  u.md and v.md cannot be read, each with the
\* message of its own exception.
Files == <<
    [name |-> "a.md", base |-> "a", state |-> "text", text |-> PassageText(1, 6, 1, TRUE)],
    [name |-> "b.md", base |-> "b", state |-> "text",
     text |-> PassageText(6, 1, 2, TRUE) \o PassageText(1, 1, 1, TRUE)],
    [name |-> "c.md", base |-> "c", state |-> "text", text |-> PassageText(7, 5, 3, TRUE)],
    [name |-> "d.md", base |-> "d", state |-> "text", text |-> PassageText(12, 5, 1, TRUE)],
    [name |-> "e.md", base |-> "e", state |-> "text", text |-> PassageText(17, 5, 4, TRUE)],
    [name |-> "f.md", base |-> "f", state |-> "text", text |-> PassageText(22, 5, 2, TRUE)],
    [name |-> "g.md", base |-> "g", state |-> "text", text |-> <<>>],
    [name |-> "h.md", base |-> "h", state |-> "text",
     text |-> <<"t", "h", "e", " ", "o", "f", " ", "1", "2">>],
    [name |-> "u.md", base |-> "u", state |-> "unreadable", text |-> <<>>,
     error |-> "permission denied"],
    [name |-> "m.md", base |-> "m", state |-> "missing", text |-> <<>>],
    [name |-> "v.md", base |-> "v", state |-> "unreadable", text |-> <<>>,
     error |-> "invalid start byte"]
>>

\* The files a client names in its calls, and the largest number of calls.
DirectFiles == {1, 2, 7, 10}

MaxCalls == 2

\* The files of the short listings of a batch, and the largest short listing.
BatchFiles == {1, 2, 9, 11}

MaxBatch == 2

\* Long listings: 26 different dominant terms, all kinds of files, and two
\* unreadable files with readable ones after each.
LongListings == {<<1, 2, 3, 4, 5, 6>>, <<9, 6, 5, 8, 4, 3, 7, 2, 1>>,
                 <<11, 1, 9, 2>>}

\* The largest reading of the clock.
MaxClock == 1

\* What a client's calls name: any files, also the same file again.
DirectListings == UNION {[1..k -> DirectFiles] : k \in 0..MaxCalls}

\* What input_dir.glob('*.md') yields (line 141): existing files, each once, in
\* any order.
BatchListings ==
    LongListings \cup
    UNION {{l \in [1..k -> BatchFiles] : \A i, j \in 1..k : i # j => l[i] # l[j]} :
           k \in 0..MaxBatch}

\* lines 47-50
NotFoundResult(name) ==
    [success |-> FALSE, error |-> <<"Markdown file not found: ", name>>]

\* lines 106-110: str(e) of the exception caught
ErrorResult(message) == [success |-> FALSE, error |-> <<message>>]

\* str(e) of the exception that open or read raises (lines 52-53, 109): the
\* message of the file's own exception
ReadError(file) ==
    IF "error" \in DOMAIN file THEN file.error ELSE "cannot read the file"

\* lines 99-104
SuccessResult(ins, base) ==
    [success |-> TRUE, insights |-> ins,
     json_path |-> <<base, "_themes.json">>,
     markdown_path |-> <<base, "_report.md">>]

\* output_dir.mkdir(parents=True, exist_ok=True), lines 44 and 133: creates the
\* directory if it is not there; k is the call it is done for (0: the batch)
EnsureDir(log, exists, k) ==
    IF exists THEN log ELSE Append(log, [op |-> "mkdir", call |-> k])

\* No test for the file's existence: opening a missing file raises.
ReadOutcomeUnchecked(file) ==
    IF file.state = "missing" THEN "unreadable" ELSE file.state

\* An empty text treated as a failure to read.
ReadOutcomeEmptyFails(file) ==
    IF file.state = "text" /\ file.text = <<>> THEN "unreadable" ELSE file.state

\* lines 46-53: the file does not exist, or reading it raises, or gives its text
ReadOutcome(file) == file.state

\* A payload that carries the time of writing.
JsonDocumentStamped(ins) == [generated |-> now, insights |-> ins]

\* json.dump(insights, ...) of line 93: the file holds the insights
JsonDocument(ins) == ins

\* generate_markdown_report (lines 347-400): the report starts with the time of
\* writing (line 352) and renders the insights
ReportDocument(ins) == [generated |-> now, insights |-> ins]

\* c[key] += 1 for every theme, whatever its frequency.
CounterAddOne(c, key, n) ==
    IF CounterHas(c, key)
    THEN Stored([i \in 1..Len(c) |->
                    IF c[i][1] = key THEN <<key, c[i][2] + 1>> ELSE c[i]])
    ELSE Append(c, <<key, 1>>)

\* c[key] += n
CounterAdd(c, key, n) ==
    IF CounterHas(c, key)
    THEN Stored([i \in 1..Len(c) |->
                    IF c[i][1] = key THEN <<key, c[i][2] + n>> ELSE c[i]])
    ELSE Append(c, <<key, n>>)

RECURSIVE AccumulateThemes(_, _)
\* lines 167-168: the loop over the dominant themes of one document
AccumulateThemes(all, themes) ==
    IF themes = <<>> THEN all
    ELSE AccumulateThemes(CounterAdd(all, Head(themes).term, Head(themes).frequency),
                          Tail(themes))

\* A failure that is put in front of the earlier ones.
RecordFailedFirst(list, filename, result) ==
    <<[filename |-> filename, error |-> result.error]>> \o list

\* A failure that is not recorded.
RecordFailedDropped(list, filename, result) == list

\* lines 171-174
RecordFailed(list, filename, result) ==
    Append(list, [filename |-> filename, error |-> result.error])

\* A processed document that is recorded twice.
RecordProcessedTwice(list, filename, result) ==
    Append(Append(list, [filename |-> filename, insights |-> result.insights]),
           [filename |-> filename, insights |-> result.insights])

\* lines 160-163
RecordProcessed(list, filename, result) ==
    Append(list, [filename |-> filename, insights |-> result.insights])

\* most_common(20) of line 182
CorpusTop == 20

\* The first 20 terms in the order in which they were inserted, unsorted.
TopThemesUnsorted(all) ==
    LET top == Take(all, CorpusTop)
    IN  Stored([k \in 1..Len(top) |->
                   [term |-> top[k][1], total_frequency |-> top[k][2]]])

\* lines 180-183
TopThemesAcrossCorpus(all) ==
    LET top == most_common(all, CorpusTop)
    IN  Stored([k \in 1..Len(top) |->
                   [term |-> top[k][1], total_frequency |-> top[k][2]]])

\* The state in which a client or a batch starts: nothing analysed, nothing
\* returned, nothing written; the output directory may exist already.
InitBatch ==
    /\ raw = <<>>
    /\ Fresh
    /\ markdown_file = ""
    /\ entry \in {"direct", "batch"}
    /\ input_dir \in BOOLEAN
    /\ entry = "direct" => input_dir
    /\ md_files \in IF entry = "direct" THEN DirectListings
                    ELSE IF input_dir THEN BatchListings ELSE {<<>>}
    /\ bpc = IF entry = "batch" THEN "start" ELSE "next"
    /\ bi = 0
    /\ returned = <<>>
    /\ batch_processed = <<>>
    /\ batch_failed = <<>>
    /\ all_term_frequencies = <<>>
    /\ batch_result = <<>>
    /\ out_dir \in BOOLEAN
    /\ written = <<>>
    /\ now = 0

\* lines 130-154: the batch creates the output directory, gives up without an
\* input directory or without markdown files, and else starts its loop with
\* empty lists
StartBatch ==
    /\ bpc = "start"
    /\ out_dir' = TRUE
    /\ written' = EnsureDir(written, out_dir, 0)
    /\ IF ~input_dir
       THEN /\ batch_result' = ErrorResult("Input directory not found")
            /\ bpc' = "returned"
       ELSE IF md_files = <<>>
       THEN /\ batch_result' = ErrorResult("No markdown files found")
            /\ bpc' = "returned"
       ELSE /\ bpc' = "next"
            /\ UNCHANGED batch_result
    /\ batch_processed' = <<>>
    /\ batch_failed' = <<>>
    /\ all_term_frequencies' = <<>>
    /\ UNCHANGED <<analysis, markdown_file, entry, input_dir, md_files, bi, returned,
                   now>>

\* The return of analyze_themes to its caller: the batch goes on to look at the
\* result (line 159), a client's call is over.
CallReturns ==
    /\ bpc' = IF entry = "batch" THEN "collect" ELSE "next"
    /\ bi' = IF entry = "batch" THEN bi ELSE bi + 1

\* lines 41-53: the call for the next file creates the output directory, then
\* returns the 'not found' failure if the file does not exist, or the failure of
\* the except clause (lines 106-110) if reading it raises, or goes on with the
\* text read
BeginCall ==
    /\ bpc = "next"
    /\ bi < Len(md_files)
    /\ LET file == Files[md_files[bi + 1]]
       IN  /\ markdown_file' = file.name
           /\ out_dir' = TRUE
           /\ written' = EnsureDir(written, out_dir, bi + 1)
           /\ CASE ReadOutcome(file) = "missing" ->
                     /\ returned' = Append(returned, NotFoundResult(file.name))
                     /\ CallReturns
                     /\ UNCHANGED analysis
                [] ReadOutcome(file) = "unreadable" ->
                     /\ returned' = Append(returned, ErrorResult(ReadError(file)))
                     /\ CallReturns
                     /\ UNCHANGED analysis
                [] OTHER ->
                     /\ raw' = file.text
                     /\ pc' = "read"
                     /\ bpc' = "running"
                     /\ UNCHANGED <<content, terms, term_frequencies, counted,
                                    significant_terms, term_contexts, cooccurrences,
                                    ci, positions, cp, cj, insights, returned, bi>>
    /\ UNCHANGED <<entry, input_dir, md_files, batch_processed, batch_failed,
                   all_term_frequencies, batch_result, now>>

\* lines 52-85: one step of the analysis inside the call
AnalysisStep ==
    /\ bpc = "running"
    /\ Next

\* lines 88-104: the JSON file and the report are written and the call returns
\* its success; the clock may have moved on by then
SaveResults ==
    /\ bpc = "running"
    /\ pc = "done"
    /\ LET base == Files[md_files[bi + 1]].base
       IN  /\ written' = written \o
                 <<[op |-> "write", path |-> <<base, "_themes.json">>,
                    data |-> JsonDocument(insights), call |-> bi + 1],
                   [op |-> "write", path |-> <<base, "_report.md">>,
                    data |-> ReportDocument(insights), call |-> bi + 1]>>
           /\ returned' = Append(returned, SuccessResult(insights, base))
    /\ now' \in now..MaxClock
    /\ CallReturns
    /\ UNCHANGED <<analysis, markdown_file, entry, input_dir, md_files,
                   batch_processed, batch_failed, all_term_frequencies, batch_result,
                   out_dir>>

\* lines 159-174: the batch files the result of the call under processed, adding
\* the frequencies of its dominant themes to the corpus Counter, or under failed
CollectResult ==
    /\ bpc = "collect"
    /\ LET result == returned[Len(returned)]
           filename == Files[md_files[bi + 1]].name
       IN  IF result.success
           THEN /\ batch_processed' = RecordProcessed(batch_processed, filename, result)
                /\ all_term_frequencies' =
                       AccumulateThemes(all_term_frequencies,
                                        result.insights.dominant_themes)
                /\ UNCHANGED batch_failed
           ELSE /\ batch_failed' = RecordFailed(batch_failed, filename, result)
                /\ UNCHANGED <<batch_processed, all_term_frequencies>>
    /\ bi' = bi + 1
    /\ bpc' = "next"
    /\ UNCHANGED <<analysis, markdown_file, entry, input_dir, md_files, returned,
                   batch_result, out_dir, written, now>>

\* lines 176-196: after the last file the batch returns its lists, the combined
\* insights and the statistics
FinishBatch ==
    /\ entry = "batch"
    /\ bpc = "next"
    /\ bi = Len(md_files)
    /\ batch_result' =
           [success |-> TRUE,
            processed |-> batch_processed,
            failed |-> batch_failed,
            combined_insights |->
                [total_documents |-> Len(md_files),
                 successful_analyses |-> Len(batch_processed),
                 top_themes_across_corpus |->
                     TopThemesAcrossCorpus(all_term_frequencies)],
            stats |-> [total_files |-> Len(md_files),
                       successful |-> Len(batch_processed),
                       failed |-> Len(batch_failed)]]
    /\ bpc' = "returned"
    /\ UNCHANGED <<analysis, markdown_file, entry, input_dir, md_files, bi, returned,
                   batch_processed, batch_failed, all_term_frequencies, out_dir,
                   written, now>>

NextBatch ==
    \/ StartBatch /\ UNCHANGED scan
    \/ BeginCall /\ UNCHANGED scan
    \/ AnalysisStep
    \/ SaveResults /\ UNCHANGED scan
    \/ CollectResult /\ UNCHANGED scan
    \/ FinishBatch /\ UNCHANGED scan

SpecBatch == InitBatch /\ [][NextBatch]_vars

-----------------------------------------------------------------------------
(* Properties of batches and of calls one after the other (SpecBatch).      *)

\* The batch has returned its lists and its combined insights.
BatchDone == entry = "batch" /\ bpc = "returned" /\ batch_result.success

\* The terms of the dominant themes of an insights record.
DominantTermsOf(ins) ==
    {ins.dominant_themes[k].term : k \in 1..Len(ins.dominant_themes)}

\* The terms that are dominant in some document of a list of processed
\* documents.
DominantSomewhere(docs) ==
    UNION {DominantTermsOf(docs[i].insights) : i \in 1..Len(docs)}

\* The sum, over the processed documents that have t among their dominant
\* themes, of the frequency of t there.
DominantTotal(docs, t) ==
    Cardinality(UNION {UNION {{<<i, k, u>> :
            u \in 1..(IF docs[i].insights.dominant_themes[k].term = t
                      THEN docs[i].insights.dominant_themes[k].frequency ELSE 0)} :
        k \in 1..Len(docs[i].insights.dominant_themes)} : i \in 1..Len(docs)})

\* The frequency of term t in the file with the given index.
FileFrequency(f, t) ==
    LET ts == extract_terms(skip_metadata(Files[f].text))
    IN  Cardinality({k \in 1..Len(ts) : ts[k] = t})

\* The sum of the frequency of t over the successfully analysed files of the
\* batch.
CorpusTotal(t) ==
    Cardinality(UNION {{<<i, u>> : u \in 1..(IF returned[i].success
                                             THEN FileFrequency(md_files[i], t)
                                             ELSE 0)} :
                       i \in 1..Len(md_files)})

\* C13: the combined ranking has at most 20 entries, of different terms, each a
\* dominant theme of some processed document, in order of non-increasing
\* total_frequency; a dominant term is left out only when 20 entries of at least
\* its total are there.
C13_CombinedRanking ==
    BatchDone =>
        LET top == batch_result.combined_insights.top_themes_across_corpus
            docs == batch_result.processed
            listed == {top[k].term : k \in 1..Len(top)}
        IN  /\ Len(top) <= 20
            /\ Cardinality(listed) = Len(top)
            /\ listed \subseteq DominantSomewhere(docs)
            /\ \A k \in 1..(Len(top) - 1) :
                   top[k].total_frequency >= top[k + 1].total_frequency
            /\ \A t \in DominantSomewhere(docs) \ listed :
                   /\ Len(top) = 20
                   /\ \A k \in 1..Len(top) :
                          top[k].total_frequency >= DominantTotal(docs, t)

\* A batch with a failed document and more than 20 dominant terms: 20 are
\* ranked, with different totals, and a dominant term is left out.
C13_Witness ==
    /\ BatchDone
    /\ batch_result.failed # <<>>
    /\ Len(batch_result.combined_insights.top_themes_across_corpus) = 20
    /\ Cardinality(DominantSomewhere(batch_result.processed)) > 20
    /\ batch_result.combined_insights.top_themes_across_corpus[1].total_frequency
           > batch_result.combined_insights.top_themes_across_corpus[20].total_frequency

\* C14 as stated: the total_frequency of a ranked term is the sum of its
\* frequency over every successfully analysed document in which it occurs.
C14_SumOverAllDocuments ==
    BatchDone =>
        LET top == batch_result.combined_insights.top_themes_across_corpus
        IN  \A k \in 1..Len(top) : top[k].total_frequency = CorpusTotal(top[k].term)

\* C14 amended: the total_frequency of a ranked term is the sum of its frequency
\* over the successfully analysed documents that have it among their dominant
\* themes.
C14_SumOverDominantDocuments ==
    BatchDone =>
        LET top == batch_result.combined_insights.top_themes_across_corpus
        IN  \A k \in 1..Len(top) :
                top[k].total_frequency
                    = DominantTotal(batch_result.processed, top[k].term)

\* A ranked term that is dominant in two documents, and a ranked term that
\* occurs in a document in which it is not dominant.
C14_Witness ==
    /\ BatchDone
    /\ LET top == batch_result.combined_insights.top_themes_across_corpus
           docs == batch_result.processed
       IN  /\ \E k \in 1..Len(top) :
                  Cardinality({i \in 1..Len(docs) :
                      top[k].term \in DominantTermsOf(docs[i].insights)}) >= 2
           /\ \E k \in 1..Len(top) :
                  DominantTotal(docs, top[k].term) < CorpusTotal(top[k].term)

\* The names of the files among the first n of the listing whose call returned
\* success = ok, in the order of the listing.
NamesReturning(ok, n) ==
    LET idx == SortedSeq({i \in 1..n : returned[i].success = ok})
    IN  [k \in 1..Len(idx) |-> Files[md_files[idx[k]]].name]

\* The failures among the first n calls of the batch as the failed list should
\* hold them: in the order of the listing, each with the name of its file and
\* the error its call returned.
FailuresReturned(n) ==
    LET idx == SortedSeq({i \in 1..n : ~returned[i].success})
    IN  [k \in 1..Len(idx) |-> [filename |-> Files[md_files[idx[k]]].name,
                                error |-> returned[idx[k]].error]]

\* C15: every call of the batch returns a result with success true or false, a
\* failure with its error; the documents dealt with so far are in exactly one of
\* processed and failed, each list in listing order; the failed list holds the
\* failures, however many, in listing order, each with its file name and the
\* error its call returned; and when the batch returns every listed document has
\* been analysed.
C15_FailuresDoNotStopTheBatch ==
    entry = "batch" =>
        /\ \A i \in 1..Len(returned) :
               /\ returned[i].success \in BOOLEAN
               /\ ~returned[i].success => "error" \in DOMAIN returned[i]
        /\ [k \in 1..Len(batch_processed) |-> batch_processed[k].filename]
               = NamesReturning(TRUE, bi)
        /\ [k \in 1..Len(batch_failed) |-> batch_failed[k].filename]
               = NamesReturning(FALSE, bi)
        /\ batch_failed = FailuresReturned(bi)
        /\ Len(batch_processed) + Len(batch_failed) = bi
        /\ \A k \in 1..Len(batch_failed) :
               \E i \in 1..bi : /\ Files[md_files[i]].name = batch_failed[k].filename
                                /\ returned[i].error = batch_failed[k].error
        /\ BatchDone => /\ bi = Len(md_files)
                        /\ Len(returned) = Len(md_files)
                        /\ batch_result.failed = FailuresReturned(Len(md_files))

\* A finished batch of four documents in which the first and the third failed,
\* with different errors, and the second and the fourth were analysed: failed
\* holds the two failures and processed the two others, in listing order.
C15_Witness ==
    /\ BatchDone
    /\ Len(md_files) = 4
    /\ ~returned[1].success /\ returned[2].success
    /\ ~returned[3].success /\ returned[4].success
    /\ returned[1].error # returned[3].error
    /\ Len(batch_result.failed) = 2
    /\ batch_result.failed[1].filename = Files[md_files[1]].name
    /\ batch_result.failed[2].filename = Files[md_files[3]].name
    /\ batch_result.failed[1].filename # batch_result.failed[2].filename
    /\ Len(batch_result.processed) = 2

\* A finished batch of two documents in which every document failed.
C15_AllFailedReached ==
    /\ BatchDone
    /\ Len(md_files) = 2
    /\ batch_result.processed = <<>>
    /\ Len(batch_result.failed) = 2

\* The call of analyze_themes for a file that does not exist, as one step.
CallOnMissing ==
    /\ bpc = "next"
    /\ bi < Len(md_files)
    /\ Files[md_files[bi + 1]].state = "missing"
    /\ Len(returned') = Len(returned) + 1

\* The call returned success = false with the 'not found' error.
ReturnsNotFound(result) ==
    /\ ~result.success
    /\ result.error[1] = "Markdown file not found: "

\* C16 as stated: the call for a missing document returns the 'not found'
\* failure and writes nothing at all.
C16_NothingWritten ==
    [][CallOnMissing =>
           /\ ReturnsNotFound(returned'[Len(returned')])
           /\ written' = written
           /\ out_dir' = out_dir]_vars

\* C16 amended: the call for a missing document returns the 'not found' failure
\* and writes no file; it creates the output directory if that was not there.
C16_OnlyDirectoryCreated ==
    [][CallOnMissing =>
           /\ ReturnsNotFound(returned'[Len(returned')])
           /\ out_dir'
           /\ written' = IF out_dir THEN written
                         ELSE Append(written, [op |-> "mkdir", call |-> bi + 1])]_vars

\* A first call, for a missing document, has returned 'not found'; the only
\* write is the creation of the output directory.
C16_Witness ==
    /\ entry = "direct"
    /\ Len(returned) = 1
    /\ Files[md_files[1]].state = "missing"
    /\ ReturnsNotFound(returned[1])
    /\ written = <<[op |-> "mkdir", call |-> 1]>>
    /\ out_dir

\* The files that hold a text without any term.
TermlessFiles ==
    {f \in 1..Len(Files) :
        Files[f].state = "text" /\ extract_terms(skip_metadata(Files[f].text)) = <<>>}

\* The data written by call i to the file base + suffix, if any.
DataWritten(i, suffix) ==
    {written[w].data : w \in {x \in 1..Len(written) :
        /\ written[x].op = "write"
        /\ written[x].call = i
        /\ written[x].path = <<Files[md_files[i]].base, suffix>>}}

\* C17: the call for a document without terms returns success with empty theme,
\* cluster and example lists and counts of 0, after writing its JSON file and
\* its report; in a batch the document is processed, not failed.
C17_EmptyDocumentSucceeds ==
    \A i \in 1..Len(returned) :
        md_files[i] \in TermlessFiles =>
            /\ returned[i].success
            /\ returned[i].insights.dominant_themes = <<>>
            /\ returned[i].insights.emerging_themes = <<>>
            /\ returned[i].insights.concept_clusters = <<>>
            /\ returned[i].insights.potential_gaps.examples = <<>>
            /\ returned[i].insights.potential_gaps.count = 0
            /\ returned[i].insights.corpus_statistics.unique_terms = 0
            /\ returned[i].insights.corpus_statistics.total_terms = 0
            /\ DataWritten(i, "_themes.json") # {}
            /\ DataWritten(i, "_report.md") # {}
            /\ (entry = "batch" /\ i <= bi) =>
                   /\ \E k \in 1..Len(batch_processed) :
                          batch_processed[k].filename = Files[md_files[i]].name
                   /\ \A k \in 1..Len(batch_failed) :
                          batch_failed[k].filename # Files[md_files[i]].name

\* A finished batch with an empty document and a document of stop words and
\* digits only, both processed.
C17_Witness ==
    /\ BatchDone
    /\ \E i, j \in 1..Len(returned) :
           /\ Files[md_files[i]].text = <<>>
           /\ Files[md_files[j]].text # <<>>
           /\ {md_files[i], md_files[j]} \subseteq TermlessFiles
           /\ returned[i].success /\ returned[j].success
    /\ Len(batch_result.processed) > 2

\* C18: two calls for the same file return the same result with the same
\* insights and write the same data to the JSON file.
C18_SameInputSameOutput ==
    \A i \in 1..Len(returned) : \A j \in (i + 1)..Len(returned) :
        (md_files[i] = md_files[j] /\ returned[i].success) =>
            /\ returned[j] = returned[i]
            /\ returned[j].insights = returned[i].insights
            /\ DataWritten(j, "_themes.json") = DataWritten(i, "_themes.json")
            /\ Cardinality(DataWritten(j, "_themes.json")) = 1

\* The same document with terms analysed twice, at different readings of the
\* clock: the reports differ.
C18_Witness ==
    /\ Len(returned) = 2
    /\ md_files[1] = md_files[2]
    /\ returned[1].success /\ returned[2].success
    /\ returned[1].insights.dominant_themes # <<>>
    /\ DataWritten(1, "_report.md") # DataWritten(2, "_report.md")

\* C19: whatever was analysed before, the insights a call returns are those of
\* its document alone (looked at whenever no call is running), and the analysis
\* starts, once the file is read, with an empty frequency table, context map and
\* co-occurrence graph.
C19_NoStateCarriedOver ==
    /\ bpc # "running" =>
           \A i \in 1..Len(returned) :
               returned[i].success =>
                   returned[i].insights
                       = AnalyzeText(Files[md_files[i]].text, Files[md_files[i]].name)
    /\ (bpc = "running" /\ pc = "extract") =>
           /\ term_frequencies = <<>>
           /\ term_contexts = EmptyGraph
           /\ cooccurrences = EmptyGraph

\* A document with co-occurring terms analysed after a failed call and after a
\* successful call for another document with terms.
C19_Witness ==
    \E i \in 1..Len(returned) : \E j \in 1..(i - 1) : \E k \in 1..(i - 1) :
        /\ returned[i].success
        /\ returned[i].insights.concept_clusters # <<>>
        /\ ~returned[j].success
        /\ returned[k].success
        /\ md_files[k] # md_files[i]
        /\ returned[k].insights.dominant_themes # <<>>

-----------------------------------------------------------------------------
(* Documents with a metadata block (SpecMeta): the step-by-step analysis of *)
(* texts in which the marker line occurs never, once or several times.      *)

\* '## Extracted text': the marker with one letter in the other case.
NearMarker == <<"#", "#", " ", "E", "x", "t", "r", "a", "c", "t", "e", "d", " ",
                "t", "e", "x", "t">>

\* The pieces of the documents of SpecMeta: three words followed by a blank,
\* the marker and the near-marker.
MetaTokens == {
    <<"a", "r", "t", " ">>,
    <<"p", "a", "r", "t", " ">>,
    <<"t", "e", "a", " ">>,
    Marker,
    NearMarker
}

\* Largest number of pieces in a document of SpecMeta.
MaxMetaTokens == 4

\* Every concatenation of at most n pieces.
MetaTexts(n) == UNION {{Flatten(ss) : ss \in [1..k -> MetaTokens]} : k \in 0..n}

InitMeta == raw \in MetaTexts(MaxMetaTokens) /\ Fresh /\ NoSession

SpecMeta == InitMeta /\ [][Next]_vars

\* The 0-based offsets at which the marker starts in text, compared character by
\* character with its case.
MarkerStarts(text) ==
    {p \in 0..(Len(text) - Len(Marker)) :
        \A d \in 1..Len(Marker) : text[p + d] = Marker[d]}

\* The characters of text in front of the first marker; all of them when there
\* is no marker.
BeforeFirstMarker(text) ==
    IF MarkerStarts(text) = {} THEN text
    ELSE [i \in 1..MinOf(MarkerStarts(text)) |-> text[i]]

\* The characters of text behind the first marker; all of them when there is no
\* marker.
AfterFirstMarker(text) ==
    IF MarkerStarts(text) = {} THEN text
    ELSE LET skip == MinOf(MarkerStarts(text)) + Len(Marker)
         IN  [i \in 1..(Len(text) - skip) |-> text[skip + i]]

\* The terms that occur in front of the first marker and not behind it.
OnlyBeforeMarker(text) ==
    IF MarkerStarts(text) = {} THEN {}
    ELSE Range(extract_terms(BeforeFirstMarker(text)))
             \ Range(extract_terms(AfterFirstMarker(text)))

\* C21: once the file is read, the text analysed is what follows the first
\* occurrence of '## Extracted Text' in the input, and the whole input when the
\* marker does not occur; the terms extracted and counted are those of that
\* part, and a term that occurs only before the marker is never a key of the
\* frequency table.
C21_TextAfterMarkerAnalysed ==
    /\ pc # "read" => content = AfterFirstMarker(raw)
    /\ pc \notin {"read", "extract"} => terms = extract_terms(AfterFirstMarker(raw))
    /\ \A t \in OnlyBeforeMarker(raw) : ~CounterHas(term_frequencies, t)
    /\ pc = "done" =>
           Range(CounterKeys(term_frequencies))
               = Range(extract_terms(AfterFirstMarker(raw)))

\* A finished analysis of a text with two markers, with a term that occurs only
\* in front of the first one and terms behind it.
C21_Witness ==
    /\ pc = "done"
    /\ Cardinality(MarkerStarts(raw)) >= 2
    /\ OnlyBeforeMarker(raw) # {}
    /\ term_frequencies # <<>>

\* A finished analysis of a text without the marker, which has the near-marker.
C21_NoMarkerReached ==
    /\ pc = "done"
    /\ MarkerStarts(raw) = {}
    /\ Contains(raw, NearMarker)
    /\ content = raw

-----------------------------------------------------------------------------
(* Documents with two words about one window apart (SpecWindow): the        *)
(* step-by-step analysis around the two ends of the proximity window.       *)

WindowWords == {<<"a", "r", "t">>, <<"t", "e", "a">>, <<"p", "a", "r", "t">>}

\* Shortest and longest run of blanks between the two words.
MinSpacing == 92

MaxSpacing == 99

Blanks(n) == [i \in 1..n |-> " "]

\* Two shapes.  w1, blanks, w2: w1 is listed first and w2 lies near the right end
\* of its window.  w2, blanks, w1 w1: w1 is the more frequent, so it is listed
\* first, and w2 lies near the left end of the window of its first occurrence.
WindowDocs ==
    {w1 \o Blanks(g) \o w2 :
        w1 \in WindowWords, w2 \in WindowWords, g \in MinSpacing..MaxSpacing}
    \cup {w2 \o Blanks(g) \o w1 \o <<" ">> \o w1 :
        w1 \in WindowWords, w2 \in WindowWords, g \in MinSpacing..MaxSpacing}

InitWindow == raw \in WindowDocs /\ Fresh /\ NoSession

SpecWindow == InitWindow /\ [][Next]_vars

\* The step of line 270-272 for the pair (term1, term2) about to be taken.
TakingPair == pc = "cooc_pair" /\ cj <= Len(significant_terms)

\* The step counts the pair about to be taken.
CountsPair ==
    GraphGet(cooccurrences', significant_terms[ci], significant_terms[cj])
        = GraphGet(cooccurrences, significant_terms[ci], significant_terms[cj]) + 1

\* The step leaves the count of the pair about to be taken as it is.
SkipsPair ==
    GraphGet(cooccurrences', significant_terms[ci], significant_terms[cj])
        = GraphGet(cooccurrences, significant_terms[ci], significant_terms[cj])

\* C22 as stated: the other term is counted for the occurrence at pos exactly
\* when some occurrence of its text lies within the characters pos - R through
\* pos + R inclusive.
C22_ClosedWindow ==
    [][TakingPair =>
        LET pos == positions[cp] - 1
        IN  IF AppearsWithin(content, significant_terms[cj],
                             pos - CoocWindow, pos + CoocWindow + 1)
            THEN CountsPair ELSE SkipsPair]_vars

\* The step adds 1 to the count of terms[ci] with terms[j], in both directions.
CountsWith(j) ==
    /\ GraphGet(cooccurrences', significant_terms[ci], significant_terms[j])
           = GraphGet(cooccurrences, significant_terms[ci], significant_terms[j]) + 1
    /\ GraphGet(cooccurrences', significant_terms[j], significant_terms[ci])
           = GraphGet(cooccurrences, significant_terms[j], significant_terms[ci]) + 1

\* The step leaves the count of terms[ci] with terms[j] as it is, in both
\* directions.
SkipsWith(j) ==
    /\ GraphGet(cooccurrences', significant_terms[ci], significant_terms[j])
           = GraphGet(cooccurrences, significant_terms[ci], significant_terms[j])
    /\ GraphGet(cooccurrences', significant_terms[j], significant_terms[ci])
           = GraphGet(cooccurrences, significant_terms[j], significant_terms[ci])

\* C22 amended: the window is the half-open range [pos - R, pos + R) clipped to
\* the document.  While the occurrence at pos of terms[ci] is dealt with, the
\* candidate for term2 is a term listed after terms[ci]; that term is counted
\* for the occurrence exactly when some occurrence of its text lies within the
\* characters pos - R through pos + R - 1; and no step at the occurrence changes
\* the count of terms[ci] with any other term, so that a term listed before
\* terms[ci] is not counted for the occurrence, wherever it lies.
C22_HalfOpenWindow ==
    [][pc = "cooc_pair" =>
        LET pos == positions[cp] - 1
        IN  /\ cj > ci
            /\ \A j \in 1..Len(significant_terms) :
                   IF /\ j = cj
                      /\ AppearsWithin(content, significant_terms[j],
                                       pos - CoocWindow, pos + CoocWindow)
                   THEN CountsWith(j) ELSE SkipsWith(j)]_vars

\* A finished analysis in which the later-listed term ends exactly at pos + R of
\* an occurrence of the earlier-listed one, lies nowhere inside
\* [pos - R, pos + R), and the pair has no count, although the earlier-listed
\* term lies inside the window of an occurrence of the later-listed one.
C22_Witness ==
    /\ pc = "done"
    /\ \E i \in 1..Len(significant_terms) : \E j \in (i + 1)..Len(significant_terms) :
           LET a == significant_terms[i]
               b == significant_terms[j]
           IN  /\ \E p \in WholeWordAt(content, a) :
                      /\ AppearsWithin(content, b, p + CoocWindow - Len(b) + 1,
                                       p + CoocWindow + 1)
                      /\ ~AppearsWithin(content, b, p - CoocWindow, p + CoocWindow)
               /\ \E q \in WholeWordAt(content, b) :
                      AppearsWithin(content, a, q - CoocWindow, q + CoocWindow)
               /\ GraphGet(cooccurrences, a, b) = 0

\* A finished analysis in which the later-listed term starts exactly at pos - R
\* of an occurrence of the earlier-listed one and is counted.
C22_LeftEndReached ==
    /\ pc = "done"
    /\ \E i \in 1..Len(significant_terms) : \E j \in (i + 1)..Len(significant_terms) :
           LET a == significant_terms[i]
               b == significant_terms[j]
           IN  /\ \E p \in WholeWordAt(content, a) :
                      /\ p - CoocWindow >= 0
                      /\ AppearsWithin(content, b, p - CoocWindow,
                                       p - CoocWindow + Len(b))
                      /\ ~AppearsWithin(content, b, p - CoocWindow + 1, p + CoocWindow)
               /\ GraphGet(cooccurrences, a, b) = 1

-----------------------------------------------------------------------------
(* The increments of the co-occurrence scan (Spec).                         *)

\* The window of the k-th position of the term being scanned contains term b.
WindowOfPositionHas(k, b) ==
    AppearsWithin(content, b, (positions[k] - 1) - CoocWindow,
                  (positions[k] - 1) + CoocWindow)

\* The positions of the term being scanned that the scan has dealt with for the
\* term at index j of the list: all those before the current one, and the
\* current one once the inner loop has passed j.
DealtWith(j) ==
    {k \in 1..Len(positions) :
        \/ k < cp
        \/ k = cp /\ pc = "cooc_pair" /\ j < cj}

\* The occurrences of term t, as 0-based positions, whose window contains term
\* u.
OccurrencesNear(t, u) ==
    {p \in WholeWordAt(content, t) :
        AppearsWithin(content, u, p - CoocWindow, p + CoocWindow)}

\* C23 as stated: each occurrence of a term whose window contains the other term
\* has added exactly 1 to the count of the pair, whichever of the two terms it is
\* an occurrence of.  When find_cooccurrences has finished, the count of a pair
\* is the number of occurrences, of either term, whose window contains the other
\* term.
C23_EveryOccurrenceAdds ==
    pc \in {"insights", "done"} =>
        \A i \in 1..Len(significant_terms) : \A j \in 1..Len(significant_terms) :
            i # j =>
                LET a == significant_terms[i]
                    b == significant_terms[j]
                    adding == ({a} \X OccurrencesNear(a, b))
                                  \cup ({b} \X OccurrencesNear(b, a))
                IN  GraphGet(cooccurrences, a, b) = Cardinality(adding)

\* C23 amended: only the occurrences of the earlier-listed term of a pair add to
\* its count.  While the occurrences of a term are scanned, its count with every
\* later-listed term is the number of its occurrences dealt with so far whose
\* window contains that term: each such occurrence has added exactly 1, however
\* often the other term appears inside the window, in both directions, and the
\* increments of distinct occurrences add up.  Its count with every
\* earlier-listed term stays the number of occurrences of that earlier term
\* whose window contains it: its own occurrences add nothing.
C23_OneIncrementPerWindow ==
    pc \in {"cooc_pos", "cooc_pair"} =>
        /\ \A j \in (ci + 1)..Len(significant_terms) :
               LET a == significant_terms[ci]
                   b == significant_terms[j]
                   n == Cardinality({k \in DealtWith(j) : WindowOfPositionHas(k, b)})
               IN  /\ GraphGet(cooccurrences, a, b) = n
                   /\ GraphGet(cooccurrences, b, a) = n
        /\ \A j \in 1..(ci - 1) :
               LET a == significant_terms[j]
                   b == significant_terms[ci]
                   n == Cardinality(OccurrencesNear(a, b))
               IN  /\ GraphGet(cooccurrences, a, b) = n
                   /\ GraphGet(cooccurrences, b, a) = n

\* The scan of a later-listed term has ended: the count of the pair is 2, from
\* the two occurrences of the earlier-listed term, the window of one of which
\* contains the later-listed term twice, and the occurrences of the later-listed
\* term, whose windows contain the earlier-listed term, have added nothing.
C23_Witness ==
    /\ pc = "cooc_pos"
    /\ cp = Len(positions) + 1
    /\ \E i \in 1..(ci - 1) :
           LET a == significant_terms[i]
               b == significant_terms[ci]
           IN  /\ GraphGet(cooccurrences, a, b) = 2
               /\ Cardinality(OccurrencesNear(a, b)) = 2
               /\ OccurrencesNear(b, a) # {}
               /\ \E p \in OccurrencesNear(a, b) :
                      Cardinality({q \in SubstringAt(content, b) :
                                      /\ q >= p - CoocWindow
                                      /\ q + Len(b) <= p + CoocWindow}) >= 2

-----------------------------------------------------------------------------
(* The terms of the clusters (SpecInsights).                                *)

\* The first ClusterTerms related terms of the theme of term t in the ranked
\* list d.
LeadingRelated(d, t) ==
    LET i == CHOOSE x \in 1..Len(d) : d[x].term = t
        n == Min(ClusterTerms, Len(d[i].related_terms))
    IN  [k \in 1..n |-> d[i].related_terms[k].term]

\* C24: the central terms of the clusters of a result are pairwise distinct,
\* and the related terms of a cluster are the leading related terms of its
\* central term's theme whatever the other clusters hold: nothing is removed
\* because it is a central or related term elsewhere.
C24_CentralTermsDistinct ==
    pc = "done" =>
        LET C == insights.concept_clusters
            d == Ranked
        IN  /\ \A k \in 1..Len(C) : \A l \in 1..Len(C) :
                   k # l => C[k].central_term # C[l].central_term
            /\ \A k \in 1..Len(C) :
                   /\ \E x \in 1..Len(d) : d[x].term = C[k].central_term
                   /\ C[k].related_terms = LeadingRelated(d, C[k].central_term)

\* A result with two clusters that share a related term, while the central term
\* of the earlier one is a related term of the later one.
C24_Witness ==
    /\ pc = "done"
    /\ \E k \in 1..Len(insights.concept_clusters) :
       \E l \in (k + 1)..Len(insights.concept_clusters) :
           LET ck == insights.concept_clusters[k]
               cl == insights.concept_clusters[l]
           IN  /\ Range(ck.related_terms) \cap Range(cl.related_terms) # {}
               /\ ck.central_term \in Range(cl.related_terms)

-----------------------------------------------------------------------------
(* analyze_themes with the loop of extract_contexts step by step (SpecScan). *)

\* Python's hay.find(needle, start): the lowest 0-based index at or after start
\* at which needle occurs, or -1.
Find(hay, needle, start) ==
    LET occ == {k \in Occurrences(hay, needle) : k - 1 >= start}
    IN  IF occ = {} THEN -1 ELSE MinOf(occ) - 1

\* pos += 1: the search resumes one character after the start of the match.
NextSearchFromOverlapping(pos, term) == pos + 1

\* pos += len(term) of line 251
NextSearchFrom(pos, term) == pos + Len(term)

\* The pieces of the documents of SpecScan: a word that overlaps itself inside
\* the two longer words, which overlap themselves in turn, and another word.
ScanTokens == {
    <<"t", "a", "t", " ">>,
    <<"T", "a", "t", "a", "t", " ">>,
    <<"t", "a", "t", "a", "t", "a", "t", " ">>,
    <<"a", "r", "t", " ">>
}

\* Largest number of pieces in a document of SpecScan.
MaxScanTokens == 3

ScanTexts(n) == UNION {{Flatten(ss) : ss \in [1..k -> ScanTokens]} : k \in 0..n}

InitScan == raw \in ScanTexts(MaxScanTokens) /\ Fresh /\ NoSession

\* line 71, once the counting loop has ended; the loop of lines 72-74 starts
BeginContexts ==
    /\ pc = "count"
    /\ counted = Len(terms)
    /\ significant_terms' = SignificantTerms(term_frequencies)
    /\ ci' = 1
    /\ pc' = "ctx_term"
    /\ UNCHANGED <<raw, content, terms, term_frequencies, counted, term_contexts,
                   cooccurrences, positions, cp, cj, insights>>
    /\ UNCHANGED scan

\* lines 72-73 and 235-239: the loop takes the next significant term and enters
\* extract_contexts with an empty list and pos = 0, or ends and
\* find_cooccurrences is entered (line 77)
ContextNextTerm ==
    /\ pc = "ctx_term"
    /\ IF ci <= Len(significant_terms)
       THEN /\ scan_pos' = 0
            /\ scan_contexts' = <<>>
            /\ scan_matches' = <<>>
            /\ pc' = "ctx_scan"
            /\ UNCHANGED ci
       ELSE /\ ci' = 1
            /\ pc' = "cooc_term"
            /\ UNCHANGED scan
    /\ UNCHANGED <<raw, content, terms, term_frequencies, counted, significant_terms,
                   term_contexts, cooccurrences, positions, cp, cj, insights>>

\* lines 240-251: one iteration of the while loop that finds the term
ContextScanMatch ==
    /\ pc = "ctx_scan"
    /\ LET term == significant_terms[ci]
           pos == Find(Lower(content), Lower(term), scan_pos)
       IN  /\ pos # -1
           /\ scan_contexts' =
                  Append(scan_contexts, ContextAt(content, term, pos + 1, ContextWindow))
           /\ scan_matches' = Append(scan_matches, pos)
           /\ scan_pos' = NextSearchFrom(pos, term)
    /\ UNCHANGED analysis

\* The loop of lines 72-74 taking the same term again after its scan has ended.
ContextScanEndSameTerm ==
    /\ pc = "ctx_scan"
    /\ Find(Lower(content), Lower(significant_terms[ci]), scan_pos) = -1
    /\ term_contexts' =
           Stored([t \in DOMAIN term_contexts \cup {significant_terms[ci]} |->
               IF t = significant_terms[ci] THEN Take(scan_contexts, MaxContexts)
               ELSE term_contexts[t]])
    /\ pc' = "ctx_term"
    /\ UNCHANGED <<raw, content, terms, term_frequencies, counted, significant_terms,
                   cooccurrences, ci, positions, cp, cj, insights>>
    /\ UNCHANGED scan

\* lines 241-243, 253 and 74: the search fails, the loop ends, and the first
\* three contexts become the entry of the term
ContextScanEnd ==
    /\ pc = "ctx_scan"
    /\ LET term == significant_terms[ci]
       IN  /\ Find(Lower(content), Lower(term), scan_pos) = -1
           /\ term_contexts' =
                  Stored([t \in DOMAIN term_contexts \cup {term} |->
                      IF t = term THEN Take(scan_contexts, MaxContexts)
                      ELSE term_contexts[t]])
    /\ ci' = ci + 1
    /\ pc' = "ctx_term"
    /\ UNCHANGED <<raw, content, terms, term_frequencies, counted, significant_terms,
                   cooccurrences, positions, cp, cj, insights>>
    /\ UNCHANGED scan

NextScan ==
    \/ ReadDocument /\ UNCHANGED <<session, scan>>
    \/ ExtractTerms /\ UNCHANGED <<session, scan>>
    \/ CountTerm /\ UNCHANGED <<session, scan>>
    \/ BeginContexts /\ UNCHANGED session
    \/ ContextNextTerm /\ UNCHANGED session
    \/ ContextScanMatch /\ UNCHANGED session
    \/ ContextScanEnd /\ UNCHANGED session
    \/ CoocNextTerm /\ UNCHANGED <<session, scan>>
    \/ CoocNextPos /\ UNCHANGED <<session, scan>>
    \/ CoocPair /\ UNCHANGED <<session, scan>>
    \/ GenerateInsights /\ UNCHANGED <<session, scan>>

SpecScan == InitScan /\ [][NextScan]_vars

\* The loop of extract_contexts ends with what the one-step definition computes.
ScanAgrees ==
    /\ pc \in {"cooc_term", "cooc_pos", "cooc_pair", "insights", "done"} =>
           term_contexts = SampleContexts(content, significant_terms)
    /\ pc = "done" => insights = AnalyzeText(raw, FileName)

\* The term whose occurrences the loop of extract_contexts is looking for, or
\* has just finished looking for.
ScannedTerm ==
    IF pc = "ctx_scan" THEN significant_terms[ci] ELSE significant_terms[ci - 1]

\* The loop of extract_contexts has ended for a term and the next term has not
\* been taken yet.
ScanEnded == pc = "ctx_term" /\ ci > 1

\* C25: the matches the scan has found for a term are occurrences of it,
\* ignoring case; the first is the leftmost occurrence and every later one the
\* leftmost occurrence that starts at or after the end of the match before it,
\* so successive match positions differ by at least len(term) and no match
\* overlaps an earlier one; the next search starts at the end of the last match;
\* and when the scan has ended no occurrence is left at or after that point,
\* the contexts kept being those of the first three matches.
C25_NonOverlappingScan ==
    (pc = "ctx_scan" \/ ScanEnded) =>
        LET t == ScannedTerm
            S == SubstringAt(content, t)
            n == Len(scan_matches)
        IN  /\ \A k \in 1..n :
                   LET from == IF k = 1 THEN 0 ELSE scan_matches[k - 1] + Len(t)
                   IN  /\ scan_matches[k] \in S
                       /\ scan_matches[k] >= from
                       /\ \A p \in S : p >= from => scan_matches[k] <= p
            /\ \A k \in 1..(n - 1) : scan_matches[k + 1] - scan_matches[k] >= Len(t)
            /\ \A p \in S : \A k \in 1..n :
                   (scan_matches[k] < p /\ p < scan_matches[k] + Len(t)) =>
                       \A l \in 1..n : scan_matches[l] # p
            /\ scan_pos = IF n = 0 THEN 0 ELSE scan_matches[n] + Len(t)
            /\ Len(scan_contexts) = n
            /\ ScanEnded =>
                   /\ \A p \in S : p < scan_pos
                   /\ Len(term_contexts[t]) = Min(3, n)
                   /\ \A k \in 1..Min(3, n) :
                          term_contexts[t][k] =
                              TrimmedRange(content, Max(0, scan_matches[k] - 50),
                                           Min(Len(content), scan_matches[k] + Len(t) + 50))

\* The scan of a term has ended with more than three matches, and an occurrence
\* of the term that starts inside a match was not matched.
C25_Witness ==
    /\ ScanEnded
    /\ Len(scan_matches) > 3
    /\ \E p \in SubstringAt(content, ScannedTerm) : \E k \in 1..Len(scan_matches) :
           /\ scan_matches[k] < p
           /\ p < scan_matches[k] + Len(ScannedTerm)
           /\ \A l \in 1..Len(scan_matches) : scan_matches[l] # p

-----------------------------------------------------------------------------
(* Calls and batches run to their end (SpecRun): the calls of SpecBatch     *)
(* with the loop of extract_contexts step by step, under the fairness of a  *)
(* program that keeps executing its next statement.                         *)

\* lines 52-85: one step of the analysis inside the call
RunStep ==
    /\ bpc = "running"
    /\ NextScan

\* The steps analyze_themes and analyze_themes_batch take on their own once
\* they have been called.
ProgramStep ==
    \/ StartBatch /\ UNCHANGED scan
    \/ (entry = "batch" /\ BeginCall) /\ UNCHANGED scan
    \/ RunStep
    \/ SaveResults /\ UNCHANGED scan
    \/ CollectResult /\ UNCHANGED scan
    \/ FinishBatch /\ UNCHANGED scan

\* A client's next call of analyze_themes
ClientCall == (entry = "direct" /\ BeginCall) /\ UNCHANGED scan

NextRun == ProgramStep \/ ClientCall

\* A batch or a call is under way: the program has a next statement, and
\* ProgramStep is enabled.
InProgress ==
    \/ bpc \in {"start", "running", "collect"}
    \/ bpc = "next" /\ entry = "batch"

\* Where the program is: the position of the caller, the position inside
\* analyze_themes and the counters of its loops.
Position == <<bpc, pc, counted, cj, scan_pos>>

\* No loop counter of the documents analysed reaches this value.
MaxPosition == 1000

\* The program moves on from where it is.  Every ProgramStep changes Position,
\* and of the steps of NextRun only a ProgramStep starts with InProgress, so
\* among the steps of NextRun these are the steps of ProgramStep.
Advance ==
    /\ InProgress
    /\ bpc' \in {"start", "next", "running", "collect", "returned"}
    /\ pc' \in {"read", "extract", "count", "ctx_term", "ctx_scan", "cooc_term",
                "cooc_pos", "cooc_pair", "insights", "done"}
    /\ counted' \in 0..MaxPosition
    /\ cj' \in 0..MaxPosition
    /\ scan_pos' \in 0..MaxPosition
    /\ Position' # Position

\* Largest number of files in a listing of SpecRun.
MaxRunFiles == 2

\* The short listings of a batch or a client.
InitRun ==
    /\ InitBatch
    /\ Len(md_files) <= MaxRunFiles

\* A program that has a next statement executes it.
SpecRun == InitRun /\ [][NextRun]_vars /\ WF_Position(Advance)

\* Every step of a program under way moves it on, and a program under way has
\* a step to take.
AdvanceIsProgramStep ==
    [][InProgress => (Position' # Position /\ counted' <= MaxPosition
                      /\ cj' <= MaxPosition /\ scan_pos' <= MaxPosition)]_vars

\* C26: the scan of extract_contexts for a term ends; a call of analyze_themes
\* that has started its analysis returns a result, a success or a failure; and
\* a batch that has been started returns, and when it has gone through its
\* list, every enumerated document has been analysed and filed under processed
\* or failed.
C26_RunsToCompletion ==
    /\ (pc = "ctx_scan") ~> (pc = "ctx_term")
    /\ (bpc = "running") ~>
           (/\ bpc # "running"
            /\ returned # <<>>
            /\ returned[Len(returned)].success \in BOOLEAN)
    /\ (entry = "batch" /\ bpc = "start") ~>
           (/\ bpc = "returned"
            /\ batch_result.success =>
                   /\ Len(returned) = Len(md_files)
                   /\ Len(batch_processed) + Len(batch_failed) = Len(md_files))

\* A batch has returned after a successful analysis and a failure, a scan of
\* extract_contexts having found its term more than once.
C26_Witness ==
    /\ entry = "batch"
    /\ bpc = "returned"
    /\ batch_result.success
    /\ Len(batch_processed) >= 1
    /\ Len(batch_failed) >= 1
    /\ \E i \in 1..Len(returned) :
           /\ returned[i].success
           /\ \E k \in 1..Len(returned[i].insights.dominant_themes) :
                  Len(returned[i].insights.dominant_themes[k].sample_contexts) >= 2

-----------------------------------------------------------------------------
(* Which occurrences the co-occurrence scan counts (Spec).                  *)

\* The scan of the occurrences of the term at index i of the list has ended.
ScanOfTermEnded(i) ==
    /\ pc \in {"cooc_term", "cooc_pos", "cooc_pair", "insights", "done"}
    /\ i < ci

\* C27: once the occurrences of a term a have been scanned, its count with
\* every later-listed term b is the number of whole-word occurrences of a whose
\* window text[max(0, pos - R):min(len, pos + R)] contains b as a substring, in
\* both directions, and stays so while b and the other terms are scanned: the
\* occurrences of b add nothing.  So the count never exceeds the number of
\* whole-word occurrences of a.
C27_OnlyEarlierTermScanned ==
    \A i \in 1..Len(significant_terms) : \A j \in (i + 1)..Len(significant_terms) :
        ScanOfTermEnded(i) =>
            LET a == significant_terms[i]
                b == significant_terms[j]
                occ == WholeWordAt(content, a)
                hits == {p \in occ : AppearsWithin(content, b, p - CoocWindow,
                                                   p + CoocWindow)}
            IN  /\ GraphGet(cooccurrences, a, b) = Cardinality(hits)
                /\ GraphGet(cooccurrences, b, a) = Cardinality(hits)
                /\ GraphGet(cooccurrences, a, b) <= Cardinality(occ)

\* The scan is at an occurrence of a later-listed term b whose window contains
\* the earlier-listed term a, all candidates for term2 dealt with, and the
\* count of the pair is still the number of occurrences of a with b in their
\* window, here every occurrence of a.
C27_Witness ==
    /\ pc = "cooc_pair"
    /\ cj > Len(significant_terms)
    /\ \E i \in 1..(ci - 1) :
           LET a == significant_terms[i]
               b == significant_terms[ci]
           IN  /\ WindowOfPositionHas(cp, a)
               /\ Cardinality(WholeWordAt(content, a)) >= 2
               /\ GraphGet(cooccurrences, a, b) = Cardinality(WholeWordAt(content, a))
               /\ GraphGet(cooccurrences, a, b) = WindowHits(content, a, b)

-----------------------------------------------------------------------------
(* The long documents analysed step by step (SpecLong).                     *)

\* A pair of words, a run of blanks as long as the window, and five words.
SplitDocs == {PassageText(1, 2, 3, TRUE) \o Gap \o PassageText(3, 5, 3, TRUE)}

InitLong == raw \in LongDocs \cup SplitDocs /\ Fresh /\ NoSession

SpecLong == InitLong /\ [][Next]_vars

\* The themes of a result, dominant and emerging.
ThemesOf(ins) ==
    {ins.dominant_themes[k] : k \in 1..Len(ins.dominant_themes)}
        \cup {ins.emerging_themes[k] : k \in 1..Len(ins.emerging_themes)}

\* The terms of the related_terms of a theme.
RelatedTermsOf(theme) ==
    {theme.related_terms[k].term : k \in 1..Len(theme.related_terms)}

\* C28: in every state of the analysis no term is a key of its own Counter in
\* the co-occurrence graph; and in the result no theme has its own term among
\* its related terms, no cluster has its central term among its related terms,
\* every cluster has 1 to 3 related terms and a cohesion of 2 to 4.
C28_NoSelfPair ==
    /\ \A t \in DOMAIN cooccurrences : ~CounterHas(cooccurrences[t], t)
    /\ pc = "done" =>
           /\ \A theme \in ThemesOf(insights) : theme.term \notin RelatedTermsOf(theme)
           /\ \A k \in 1..Len(insights.concept_clusters) :
                  LET c == insights.concept_clusters[k]
                  IN  /\ c.central_term \notin Range(c.related_terms)
                      /\ Len(c.related_terms) \in 1..3
                      /\ c.cohesion \in 2..4

\* A result with emerging themes, a cluster of one related term and a cluster
\* of three, the central term of which has more than three neighbours.
C28_Witness ==
    /\ pc = "done"
    /\ insights.emerging_themes # <<>>
    /\ \E k \in 1..Len(insights.concept_clusters) :
           insights.concept_clusters[k].cohesion = 2
    /\ \E k \in 1..Len(insights.concept_clusters) :
           /\ insights.concept_clusters[k].cohesion = 4
           /\ Cardinality(Neighbours(insights.concept_clusters[k].central_term)) > 3

-----------------------------------------------------------------------------
(* Documents with dotted capital I (SpecDotted): the step-by-step analysis  *)
(* of texts whose lowercase form is longer than the text.                   *)

Dots(n) == [i \in 1..n |-> DottedI]

\* Largest number of dotted capital I in a document of SpecDotted.
MaxDots == 52

\* None, and around the width of the context window.
DotCounts == {0, 1} \cup (MaxDots - 3)..MaxDots

DottedBodies == {
    <<"a", "r", "t", " ", "t", "e", "a", " ", "a", "r", "t", " ", "t", "e", "a", " ",
      "A", "r", "t">>,
    <<"a", "r", "t">>
}

\* The dotted letters in front of the words, or behind them.
DottedDocs ==
    {Dots(n) \o <<" ">> \o body : n \in DotCounts, body \in DottedBodies}
    \cup {body \o <<" ">> \o Dots(n) : n \in DotCounts, body \in DottedBodies}

InitDotted == raw \in DottedDocs /\ Fresh /\ NoSession

SpecDotted == InitDotted /\ [][Next]_vars

\* C29: every theme of the result, dominant or emerging, has 1 to 3 sample
\* contexts, and every sample context contains the term of the theme, ignoring
\* case.
C29_ContextsContainTheTerm ==
    pc = "done" =>
        \A theme \in ThemesOf(insights) :
            /\ Len(theme.sample_contexts) \in 1..3
            /\ \A k \in 1..Len(theme.sample_contexts) :
                   SubstringAt(theme.sample_contexts[k], theme.term) # {}

\* What holds of the sample contexts: every theme has 1 to 3 of them, and
\* those of a text without dotted capital I contain the term of the theme.
PlainTextContextsHaveTheTerm ==
    pc = "done" =>
        \A theme \in ThemesOf(insights) :
            /\ Len(theme.sample_contexts) \in 1..3
            /\ (\A i \in 1..Len(content) : content[i] # DottedI) =>
                   \A k \in 1..Len(theme.sample_contexts) :
                       SubstringAt(theme.sample_contexts[k], theme.term) # {}

\* A result with an emerging theme of three sample contexts, one that contains
\* the term and one, not empty, that does not.
C29_Witness ==
    /\ pc = "done"
    /\ \E k \in 1..Len(insights.emerging_themes) :
           LET theme == insights.emerging_themes[k]
           IN  /\ Len(theme.sample_contexts) = 3
               /\ \E x \in 1..3 :
                      SubstringAt(theme.sample_contexts[x], theme.term) # {}
               /\ \E x \in 1..3 :
                      /\ theme.sample_contexts[x] # <<>>
                      /\ SubstringAt(theme.sample_contexts[x], theme.term) = {}


\* ---------------------------------------------------------------------------
\* The bookkeeping of a batch (lines 141-196).
\* ---------------------------------------------------------------------------

\* The sum, over the calls of the batch that returned success, of the frequency
\* of t among the dominant themes the call returned.
ReturnedTotal(t) ==
    Cardinality(UNION {UNION {{<<i, k, u>> :
            u \in 1..(IF returned[i].insights.dominant_themes[k].term = t
                      THEN returned[i].insights.dominant_themes[k].frequency
                      ELSE 0)} :
        k \in 1..Len(returned[i].insights.dominant_themes)} :
        i \in {j \in 1..Len(returned) : returned[j].success}})

\* C30: when a batch over a non-empty listing returns success, total_files and
\* total_documents are the number of listed documents, which is successful plus
\* failed; successful_analyses and successful are the length of processed and
\* failed the length of the failed list; and every total_frequency of the
\* combined ranking is the sum over the calls that returned success alone, so
\* that a failed document adds nothing to it.
C30_BookkeepingConsistent ==
    BatchDone /\ md_files # <<>> =>
        LET stats == batch_result.stats
            combined == batch_result.combined_insights
            top == combined.top_themes_across_corpus
            ok == {i \in 1..Len(returned) : returned[i].success}
        IN  /\ stats.total_files = Len(md_files)
            /\ combined.total_documents = stats.total_files
            /\ stats.successful + stats.failed = stats.total_files
            /\ combined.successful_analyses = Len(batch_result.processed)
            /\ stats.successful = Cardinality(ok)
            /\ stats.failed = Len(md_files) - Cardinality(ok)
            /\ Len(batch_result.processed) = stats.successful
            /\ Len(batch_result.failed) = stats.failed
            /\ \A k \in 1..Len(top) :
                   top[k].total_frequency = ReturnedTotal(top[k].term)

\* A finished batch with a failed document, an analysed document that has no
\* dominant theme, and a ranked term that is dominant in two of the analysed
\* documents.
C30_Witness ==
    /\ BatchDone
    /\ batch_result.stats.failed >= 1
    /\ batch_result.stats.successful >= 3
    /\ \E i \in 1..Len(batch_result.processed) :
           batch_result.processed[i].insights.dominant_themes = <<>>
    /\ \E k \in 1..Len(batch_result.combined_insights.top_themes_across_corpus) :
           LET e == batch_result.combined_insights.top_themes_across_corpus[k]
           IN  Cardinality({i \in 1..Len(batch_result.processed) :
                   e.term \in DominantTermsOf(batch_result.processed[i].insights)})
                   >= 2

-----------------------------------------------------------------------------
====
